---------------------------- MODULE Spec2Model ----------------------------
(* API gateway: per-upstream circuit breaker, Redis-backed rate limiter,   *)
(* guard chain and exception filter, modelled from the TypeScript source.  *)
EXTENDS Integers, Sequences, FiniteSets, TLC

(***************************************************************************)
(* Bounds of the model                                                     *)
(***************************************************************************)
MaxTime == 75000
MaxInFlight == 2
MaxBurst == 3

\* Date.now() advances between events by one of these amounts (ms)
TimeSteps == {15000, 30000}

(***************************************************************************)
(* Circuit breaker (services/shared/services/circuit-breaker.service.ts)   *)
(***************************************************************************)
Upstreams == {"service-a", "service-b"}

\* CircuitOptions defaults
failureThreshold == 3
resetTimeout == 30000
halfOpenAttempts == 2

\* What one upstream HTTP exchange can produce
Outcomes == {"ok2xx", "http404", "http4xx", "http5xx", "refused", "timeout"}

VARIABLES
  now,              \* Date.now(), ms
  circuits,         \* CircuitBreakerService.circuits: name -> CircuitBreaker
  inFlight,         \* per upstream: calls past checkState awaiting fn()
  consecFailures,   \* observer: failures completed since the last success
  succSinceHalfOpen,\* observer: successes completed since HALF_OPEN was entered
  cbLast            \* observer: the last breaker event

cbVars == <<circuits, inFlight, consecFailures, succSinceHalfOpen, cbLast>>

VARIABLES
  defaultLimit,           \* ThrottlerService.defaultLimit (THROTTLE_LIMIT)
  defaultTtl,             \* ThrottlerService.defaultTtl (THROTTLE_TTL)
  enableTenantRateLimits, \* process.env.ENABLE_TENANT_RATE_LIMITS === 'true'
  kv,                     \* Redis: key -> [value, expireAt] (expireAt 0: none)
  reqs,                   \* per slot: the request being served, or its response
  rlLast,                 \* observer: the last RateLimitResult returned
  stats,                  \* observer: per (redis key): requests seen / passed
  kvFaults,               \* observer: Redis commands that have failed
  arrivals                \* observer: requests received so far

rlVars == <<defaultLimit, defaultTtl, enableTenantRateLimits, kv, reqs,
            rlLast, stats, kvFaults, arrivals>>

VARIABLES
  perm              \* observer: the last validatePermissions call and result

VARIABLES
  flt               \* one failure on its way through AllExceptionsFilter

VARIABLES
  cacheKv,          \* Redis, the cache keys: key -> [val, exp (ms)]
  upVer,            \* per tenant: the version of the data service-a holds
  writes,           \* writes issued so far
  lastGet,          \* observer, per cache key: the last read served with a working KV
  cacheLast         \* observer: the cache operation that has just run

cacheVars == <<cacheKv, upVer, writes, lastGet, cacheLast>>

VARIABLES
  srv               \* the process: HTTP server, Redis client, signal handlers

VARIABLES
  jwt               \* one bearer-mode request on its way through JwtAuthGuard

VARIABLES
  lim               \* one (method, resource) put to the limit and ttl lookups

VARIABLES
  rd,               \* a getItemById call: where it stands in getOrSet
  wr                \* an updateItem / deleteItem call: where it stands

raceVars == <<rd, wr>>

moreVars == <<jwt, lim, raceVars>>

extVars == <<flt, cacheVars, srv, moreVars>>

\* new CircuitBreaker(serviceName): field initialisers
NewCircuitBreaker ==
  [state |-> "CLOSED", failureCount |-> 0, lastError |-> "null",
   nextAttempt |-> 0, halfOpenSuccesses |-> 0]

\* CircuitBreakerService.getCircuit: create on first use
getCircuit(cs, serviceName) ==
  IF serviceName \in DOMAIN cs THEN cs
  ELSE [n \in DOMAIN cs \cup {serviceName} |->
          IF n = serviceName THEN NewCircuitBreaker ELSE cs[n]]

\* error.response.data: the upstream's body; present is FALSE for an empty
\* body, and a field that the body lacks is ""
NoData == [present |-> FALSE, error |-> "", message |-> "", errorCode |-> ""]

\* err.response of a thrown value that has none
NoResponse == [present |-> FALSE, status |-> 0, data |-> NoData]

\* An exception value: its class, HTTP status, the error, message and
\* errorCode fields of its response object ("" when absent), its transport
\* code, and err.response (an axios error carries the upstream's answer)
NoException ==
  [class |-> "none", status |-> 0, error |-> "", message |-> "",
   errorCode |-> "", code |-> "", response |-> NoResponse]

\* BaseException(errorType, message, statusCode, errorCode)
BaseException(errorType, message, statusCode, errorCode) ==
  [class |-> "BaseException", status |-> statusCode, error |-> errorType,
   message |-> message, errorCode |-> errorCode, code |-> "",
   response |-> NoResponse]

\* ServiceUnavailableException(service)
ServiceUnavailableException ==
  BaseException("ServiceUnavailable",
                "The service is currently unavailable. Please try again later.",
                503, "ERR_SERVICE_UNAVAILABLE")

\* GatewayTimeoutException()
GatewayTimeoutException ==
  BaseException("GatewayTimeout",
                "The server did not receive a timely response from an upstream server.",
                504, "ERR_GATEWAY_TIMEOUT")

\* ResourceNotFoundException(resourceType, identifier)
ResourceNotFoundException ==
  BaseException("NotFound", "The item with identifier id could not be found.",
                404, "ERR_RESOURCE_NOT_FOUND")

\* trip that leaves the open-until as it was
trip_keepsNextAttempt(b, t) == [b EXCEPT !.state = "OPEN"]

\* CircuitBreaker.trip
trip(b, t) == [b EXCEPT !.state = "OPEN", !.nextAttempt = t + resetTimeout]

\* reset that leaves nextAttempt as it is
reset_keepsNextAttempt(b) ==
  [b EXCEPT !.state = "CLOSED", !.failureCount = 0, !.lastError = "null",
            !.halfOpenSuccesses = 0]

\* CircuitBreaker.reset
reset(b) ==
  [b EXCEPT !.state = "CLOSED", !.failureCount = 0, !.lastError = "null",
            !.nextAttempt = 0, !.halfOpenSuccesses = 0]

\* checkState with the comparison turned round
checkState_reversed(b, t) ==
  IF b.state = "OPEN" /\ t <= b.nextAttempt
  THEN [b EXCEPT !.state = "HALF_OPEN", !.halfOpenSuccesses = 0]
  ELSE b

\* checkState that forgets to restart the half-open count
checkState_noRestart(b, t) ==
  IF b.state = "OPEN" /\ t >= b.nextAttempt
  THEN [b EXCEPT !.state = "HALF_OPEN"]
  ELSE b

\* CircuitBreaker.checkState, the OPEN -> HALF_OPEN part
checkState(b, t) ==
  IF b.state = "OPEN" /\ t >= b.nextAttempt
  THEN [b EXCEPT !.state = "HALF_OPEN", !.halfOpenSuccesses = 0]
  ELSE b

\* checkState that lets nothing through until the breaker is CLOSED
checkStateThrows_untilClosed(b, t) ==
  b.state # "CLOSED"

\* CircuitBreaker.checkState, the throw: still OPEN after the transition
checkStateThrows(b, t) == checkState(b, t).state = "OPEN"

\* onSuccess that needs one success more than halfOpenAttempts
onSuccess_strict(b) ==
  IF b.state = "HALF_OPEN"
  THEN LET b1 == [b EXCEPT !.halfOpenSuccesses = @ + 1]
       IN IF b1.halfOpenSuccesses > halfOpenAttempts THEN reset(b1) ELSE b1
  ELSE IF b.state = "CLOSED" THEN [b EXCEPT !.failureCount = 0]
  ELSE b

\* onSuccess that counts half-open successes and never closes
onSuccess_neverCloses(b) ==
  IF b.state = "HALF_OPEN" THEN [b EXCEPT !.halfOpenSuccesses = 1]
  ELSE IF b.state = "CLOSED" THEN [b EXCEPT !.failureCount = 0]
  ELSE b

\* CircuitBreaker.onSuccess
onSuccess(b) ==
  IF b.state = "HALF_OPEN"
  THEN LET b1 == [b EXCEPT !.halfOpenSuccesses = @ + 1]
       IN IF b1.halfOpenSuccesses >= halfOpenAttempts THEN reset(b1) ELSE b1
  ELSE IF b.state = "CLOSED" THEN [b EXCEPT !.failureCount = 0]
  ELSE b

\* onFailure that trips one failure late
onFailure_strict(b, error, t) ==
  LET b0 == [b EXCEPT !.lastError = "Error"]
  IN IF b0.state = "HALF_OPEN" THEN trip(b0, t)
     ELSE IF b0.state = "CLOSED"
     THEN LET b1 == [b0 EXCEPT !.failureCount = @ + 1]
          IN IF b1.failureCount > failureThreshold THEN trip(b1, t) ELSE b1
     ELSE b0

\* onFailure that counts and trips in whatever state the breaker is
onFailure_anyState(b, error, t) ==
  LET b1 == [b EXCEPT !.lastError = "Error", !.failureCount = @ + 1]
  IN IF b1.state = "HALF_OPEN" \/ b1.failureCount >= failureThreshold
     THEN trip(b1, t)
     ELSE b1

\* CircuitBreaker.onFailure
onFailure(b, error, t) ==
  LET b0 == [b EXCEPT !.lastError = "Error"]
  IN IF b0.state = "HALF_OPEN" THEN trip(b0, t)
     ELSE IF b0.state = "CLOSED"
     THEN LET b1 == [b0 EXCEPT !.failureCount = @ + 1]
          IN IF b1.failureCount >= failureThreshold THEN trip(b1, t) ELSE b1
     ELSE b0

\* HTTP status of an exchange that produced a response
OutcomeStatus(outcome) ==
  CASE outcome = "ok2xx" -> 200
    [] outcome = "http404" -> 404
    [] outcome = "http4xx" -> 409
    [] outcome = "http5xx" -> 500
    [] OTHER -> 0

\* ServiceXService.handleError: what catchError rethrows for a rejected
\* exchange (service-a wraps the upstream body in an HttpException,
\* service-b and service-c throw the upstream body itself)
handleError(serviceName, outcome) ==
  CASE outcome = "timeout" -> GatewayTimeoutException
    [] outcome = "refused" -> ServiceUnavailableException
    [] outcome = "http404" -> ResourceNotFoundException
    [] OTHER ->
         [class |-> IF serviceName = "service-a" THEN "HttpException"
                    ELSE "PlainObject",
          status |-> OutcomeStatus(outcome), error |-> "UpstreamError",
          message |-> "upstream message", errorCode |-> "", code |-> "",
          response |-> NoResponse]

\* The wrapped function fn(): axios rejects every exchange that is not 2xx
\* (default validateStatus) and catchError(handleError) always throws, so
\* only a 2xx exchange resolves
fnThrows(outcome) == outcome # "ok2xx"

\* what fn() settles with: NoException when it resolves
fnResult(serviceName, outcome) ==
  IF fnThrows(outcome) THEN handleError(serviceName, outcome) ELSE NoException

RECURSIVE SumOver(_, _)
SumOver(f, S) ==
  IF S = {} THEN 0
  ELSE LET x == CHOOSE y \in S : TRUE IN f[x] + SumOver(f, S \ {x})

TotalInFlight == SumOver(inFlight, Upstreams)

\* the observers saturate: only "at least the threshold" is ever asked
Sat(n, cap) == IF n >= cap THEN cap ELSE n

NoCbEvent ==
  [kind |-> "none", name |-> "service-a", pre |-> NewCircuitBreaker,
   preNow |-> 0, outcome |-> "ok2xx", thrown |-> NoException,
   preConsec |-> 0, preSucc |-> 0, preInFlight |-> 0]

CbInit ==
  /\ circuits = <<>>
  /\ inFlight = [u \in Upstreams |-> 0]
  /\ consecFailures = [u \in Upstreams |-> 0]
  /\ succSinceHalfOpen = [u \in Upstreams |-> 0]
  /\ cbLast = NoCbEvent

\* executeWithCircuitBreaker up to the await of fn(): getCircuit, checkState,
\* then either the throw or the start of the upstream exchange
ExecuteUpTo(u, cap) ==
  LET cs == getCircuit(circuits, u)
      b  == cs[u]
      b1 == checkState(b, now)
      ev == [kind |-> "admitted", name |-> u, pre |-> b, preNow |-> now,
             outcome |-> "ok2xx", thrown |-> NoException,
             preConsec |-> consecFailures[u],
             preSucc |-> succSinceHalfOpen[u], preInFlight |-> inFlight[u]]
  IN /\ circuits' = [cs EXCEPT ![u] = b1]
     /\ succSinceHalfOpen' =
          IF b.state = "OPEN" /\ b1.state = "HALF_OPEN"
          THEN [succSinceHalfOpen EXCEPT ![u] = 0] ELSE succSinceHalfOpen
     /\ IF checkStateThrows(b, now)
        THEN /\ inFlight' = inFlight
             /\ cbLast' = [ev EXCEPT !.kind = "rejected",
                                     !.thrown = ServiceUnavailableException]
        ELSE /\ TotalInFlight < cap
             /\ inFlight' = [inFlight EXCEPT ![u] = @ + 1]
             /\ cbLast' = ev
     /\ UNCHANGED <<now, consecFailures, rlVars, perm, extVars>>

\* executeWithCircuitBreaker with at most MaxInFlight calls awaiting fn()
Execute(u) == ExecuteUpTo(u, MaxInFlight)

\* the continuation of execute after fn() settled: onSuccess or onFailure
Settle(u, outcome) ==
  /\ inFlight[u] > 0
  /\ LET b == circuits[u]
         r == fnResult(u, outcome)
     IN /\ circuits' = [circuits EXCEPT ![u] =
                          IF r # NoException THEN onFailure(b, r, now)
                          ELSE onSuccess(b)]
        /\ consecFailures' = [consecFailures EXCEPT ![u] =
                          IF r = NoException THEN 0
                          ELSE Sat(@ + 1, failureThreshold)]
        /\ succSinceHalfOpen' = [succSinceHalfOpen EXCEPT ![u] =
                          IF r = NoException /\ b.state = "HALF_OPEN"
                          THEN Sat(@ + 1, halfOpenAttempts) ELSE @]
        /\ cbLast' = [kind |-> "settled", name |-> u, pre |-> b, preNow |-> now,
                      outcome |-> outcome,
                      thrown |-> r,
                      preConsec |-> consecFailures[u],
                      preSucc |-> succSinceHalfOpen[u],
                      preInFlight |-> inFlight[u]]
  /\ inFlight' = [inFlight EXCEPT ![u] = @ - 1]
  /\ UNCHANGED <<now, rlVars, perm, extVars>>

(***************************************************************************)
(* Rate limiter (core/throttler, core/redis) and the guard chain           *)
(***************************************************************************)
MaxLimit == 2
MaxOver == 1
MaxFaults == 1
StartTime == 45000
MaxRequests == 3
Slots == {1, 2}

\* parseInt(THROTTLE_TTL || '60'), seconds
defaultTtlDefault == 60

\* ThrottlerService.limitMap, keyed by <<method, resource>> or <<method>>
limitMap(dl) ==
  [k \in {<<"POST", "user">>, <<"PUT", "user">>, <<"POST", "product">>,
          <<"PUT", "product">>, <<"POST", "file">>, <<"PUT", "file">>,
          <<"POST", "function">>, <<"PUT", "function">>,
          <<"DELETE", "function">>, <<"POST", "version">>,
          <<"DELETE", "version">>, <<"POST", "data">>, <<"DELETE", "data">>,
          <<"POST", "chat">>, <<"GET">>, <<"DELETE">>} |->
     CASE k = <<"POST", "user">> -> 5
       [] k = <<"PUT", "user">> -> 10
       [] k = <<"POST", "product">> -> 5
       [] k = <<"PUT", "product">> -> 10
       [] k = <<"POST", "file">> -> 10
       [] k = <<"PUT", "file">> -> 15
       [] k = <<"POST", "function">> -> 15
       [] k = <<"PUT", "function">> -> 20
       [] k = <<"DELETE", "function">> -> 10
       [] k = <<"POST", "version">> -> 5
       [] k = <<"DELETE", "version">> -> 5
       [] k = <<"POST", "data">> -> 20
       [] k = <<"DELETE", "data">> -> 10
       [] k = <<"POST", "chat">> -> 60
       [] k = <<"GET">> -> dl
       [] k = <<"DELETE">> -> 20]

\* ThrottlerService.ttlMap
ttlMap(dt) ==
  [k \in {<<"POST", "user">>, <<"PUT", "user">>, <<"POST", "product">>,
          <<"PUT", "product">>, <<"POST", "file">>, <<"PUT", "file">>,
          <<"POST", "function">>, <<"PUT", "function">>,
          <<"DELETE", "function">>, <<"POST", "version">>,
          <<"DELETE", "version">>, <<"POST", "data">>, <<"DELETE", "data">>,
          <<"POST", "sync">>, <<"POST", "chat">>, <<"GET">>, <<"DELETE">>} |->
     IF k \in {<<"POST", "sync">>, <<"DELETE">>} THEN dt * 2 ELSE dt]

\* m[k] of a JavaScript object read for truthiness: 0 stands for undefined
Lookup(m, k) == IF k \in DOMAIN m THEN m[k] ELSE 0

\* the limit and ttl resolution at the head of checkRateLimit
resolveLimit(dl, dt, method, resource) ==
  IF resource # "" /\ Lookup(limitMap(dl), <<method, resource>>) # 0
  THEN [limit |-> limitMap(dl)[<<method, resource>>],
        ttl |-> IF Lookup(ttlMap(dt), <<method, resource>>) # 0
                THEN ttlMap(dt)[<<method, resource>>] ELSE dt]
  ELSE IF Lookup(limitMap(dl), <<method>>) # 0
  THEN [limit |-> limitMap(dl)[<<method>>],
        ttl |-> IF Lookup(ttlMap(dt), <<method>>) # 0
                THEN ttlMap(dt)[<<method>>] ELSE dt]
  ELSE [limit |-> dl, ttl |-> dt]

\* Math.ceil(a / b) for a >= 0, b > 0
CeilDiv(a, b) == (a + b - 1) \div b

\* ThrottlerService.generateKey: `api-gateway:${id}:${method}[:${resource}]:${period}`
generateKey(identifier, method, resource, ttl, t) ==
  [id |-> identifier, method |-> method, resource |-> resource,
   period |-> IF ttl # 0 THEN t \div (ttl * 1000) ELSE 0]

\* Redis INCRBY key 1: the stored value after the command
incrBy(store, key) ==
  IF key \in DOMAIN store
  THEN [store EXCEPT ![key].value = @ + 1]
  ELSE [k \in DOMAIN store \cup {key} |->
          IF k = key THEN [value |-> 1, expireAt |-> 0] ELSE store[k]]

\* Redis EXPIRE key ttl
expire(store, key, ttl, t) ==
  IF key \in DOMAIN store
  THEN [store EXCEPT ![key].expireAt = t + ttl * 1000]
  ELSE store

\* Redis drops a key once its expiry time is reached
Purge(store, t) ==
  LET live == {k \in DOMAIN store :
                 store[k].expireAt = 0 \/ store[k].expireAt > t}
  IN [k \in live |-> store[k]]

\* RedisService.incrementByThrottler: is EXPIRE sent after this INCRBY value
needsExpire_always(ttl, value, increment) == ttl # 0

needsExpire(ttl, value, increment) == ttl # 0 /\ value = increment

\* RedisService.incrementByThrottler, catch branch: the value returned when
\* a Redis command rejected
incrementByThrottlerOnError == 0

\* the RateLimitResult built by checkRateLimit from the incremented value
RateLimitResult_inclusive(limit, ttl, current, t) ==
  [limited |-> current >= limit,
   current |-> current,
   limit |-> limit,
   remaining |-> IF limit - current > 0 THEN limit - current ELSE 0,
   resetTime |-> CeilDiv(t, 1000) + ttl]

RateLimitResult(limit, ttl, current, t) ==
  [limited |-> current > limit,
   current |-> current,
   limit |-> limit,
   remaining |-> IF limit - current > 0 THEN limit - current ELSE 0,
   resetTime |-> CeilDiv(t, 1000) + ttl]

(***************************************************************************)
(* Routes, callers, guards                                                 *)
(***************************************************************************)
\* The route metadata set by the decorators of the controllers
RouteIds ==
  {"items", "categories", "statistics", "syscheck", "health", "upload"}

RouteTable ==
  [r \in RouteIds |->
     CASE r = "items" ->
            [path |-> "/api/api/service-a/items", method |-> "GET",
             resource |-> "item", action |-> "read",
             roles |-> {"admin", "user"}, isPublic |-> FALSE,
             skipThrottle |-> FALSE, upstream |-> "service-a",
             useGuards |-> <<"Throttler", "Jwt", "Roles">>]
       [] r = "categories" ->
            [path |-> "/api/api/service-a/categories", method |-> "GET",
             resource |-> "item", action |-> "read",
             roles |-> {"admin", "user"}, isPublic |-> FALSE,
             skipThrottle |-> TRUE, upstream |-> "service-a",
             useGuards |-> <<"Throttler", "Jwt", "Roles">>]
       [] r = "statistics" ->
            [path |-> "/api/api/service-a/statistics", method |-> "GET",
             resource |-> "item", action |-> "read",
             roles |-> {"admin"}, isPublic |-> FALSE,
             skipThrottle |-> FALSE, upstream |-> "service-a",
             useGuards |-> <<"Throttler", "Jwt", "Roles">>]
       [] r = "syscheck" ->
            [path |-> "/api/system-check-key", method |-> "GET",
             resource |-> "", action |-> "", roles |-> {},
             isPublic |-> FALSE, skipThrottle |-> FALSE,
             upstream |-> "", useGuards |-> <<>>]
       [] r = "health" ->
            [path |-> "/api/health", method |-> "GET",
             resource |-> "", action |-> "", roles |-> {},
             isPublic |-> TRUE, skipThrottle |-> FALSE,
             upstream |-> "", useGuards |-> <<>>]
       [] r = "upload" ->
            [path |-> "/api/api/service-c/files", method |-> "POST",
             resource |-> "file", action |-> "create",
             roles |-> {"admin", "user"}, isPublic |-> FALSE,
             skipThrottle |-> FALSE, upstream |-> "service-c",
             useGuards |-> <<"Throttler", "Jwt", "Roles">>]]

\* CoreModule APP_GUARD providers, in registration order
GlobalGuards_throttlerFirst == <<"Throttler", "ApiKey", "Jwt", "Roles">>

GlobalGuards == <<"ApiKey", "Jwt", "Roles", "Throttler">>

\* the guards Nest runs for a route: global ones, then @UseGuards of the handler
GuardChain(r) == GlobalGuards \o RouteTable[r].useGuards

\* STATIC_API_TOKEN, comma-split
apiKeys == {"default-api-key", "test-api-key"}

\* AuthenticationProvider.validateApiKey
validateApiKey_any(apiKey) == TRUE

validateApiKey(apiKey) == apiKey \in apiKeys

\* request.ip as colon-separated tokens (an IPv4-mapped IPv6 address)
ClientIp == <<"", "", "ffff", "10.0.0.1">>

\* The callers: the request headers each one sends
ClientIds ==
  {"anon", "directKey", "keyUser", "badKey", "bearer", "bearerBad",
   "badKeyBearer", "keyBearer", "bearerNoTenant", "bearerOtherTenant"}

Headers ==
  [c \in ClientIds |->
     LET none == [apiKey |-> "", authorization |-> "", tenantid |-> "",
                  userEmail |-> "", userRole |-> "", tenantName |-> "",
                  xTenantId |-> "", sourceService |-> "", requestId |-> ""]
     IN CASE c = "anon" -> none
          [] c = "directKey" -> [none EXCEPT !.apiKey = "default-api-key"]
          [] c = "keyUser" ->
               [none EXCEPT !.apiKey = "test-api-key",
                            !.userEmail = "u@x", !.userRole = "user",
                            !.tenantName = "T1", !.xTenantId = "t1"]
          [] c = "badKey" -> [none EXCEPT !.apiKey = "wrong-key"]
          [] c = "bearer" ->
               [none EXCEPT !.authorization = "tok-user", !.tenantid = "t1",
                            !.requestId = "rid-client"]
          [] c = "bearerBad" ->
               [none EXCEPT !.authorization = "tok-bad", !.tenantid = "t1"]
          [] c = "badKeyBearer" ->
               [none EXCEPT !.apiKey = "wrong-key",
                            !.authorization = "tok-user", !.tenantid = "t1"]
          [] c = "keyBearer" ->
               [none EXCEPT !.apiKey = "default-api-key",
                            !.authorization = "tok-bad", !.tenantid = "t1"]
          [] c = "bearerNoTenant" ->
               [none EXCEPT !.authorization = "tok-user"]
          [] c = "bearerOtherTenant" ->
               [none EXCEPT !.authorization = "tok-user", !.tenantid = "t2"]]

\* request.user
NoUser ==
  [set |-> FALSE, id |-> <<>>, tenantId |-> "", tenantName |-> "",
   roles |-> {}, sourceService |-> ""]

\* Nest UnauthorizedException(message)
UnauthorizedException ==
  [class |-> "HttpException", status |-> 401, error |-> "Unauthorized",
   message |-> "Missing authorization token", errorCode |-> "", code |-> "",
   response |-> NoResponse]

\* Nest ForbiddenException(message); also what Nest throws when a guard
\* returns false
NestForbiddenException ==
  [class |-> "HttpException", status |-> 403, error |-> "Forbidden",
   message |-> "Forbidden resource", errorCode |-> "", code |-> "",
   response |-> NoResponse]

\* ThrottlerGuard: HttpException({statusCode: 429, message, error: 'Too Many Requests'}, 429)
TooManyRequestsException ==
  [class |-> "HttpException", status |-> 429, error |-> "Too Many Requests",
   message |-> "Too many requests, please try again later.", errorCode |-> "", code |-> "",
   response |-> NoResponse]

\* AuthenticationProvider.validatePermissions
permissionMap ==
  [res \in {"user", "product", "order", "report"} |->
     [act \in {"create", "read", "update", "delete"} |->
        IF act = "read" \/ (res = "order" /\ act = "create")
        THEN {"user", "admin"} ELSE {"admin"}]]

validatePermissions_noAdmin(resource, action, userRoles) ==
  IF resource \notin DOMAIN permissionMap THEN FALSE
  ELSE IF action \notin DOMAIN permissionMap[resource] THEN FALSE
  ELSE userRoles \cap permissionMap[resource][action] # {}

validatePermissions(resource, action, userRoles) ==
  IF "admin" \in userRoles THEN TRUE
  ELSE IF resource \notin DOMAIN permissionMap THEN FALSE
  ELSE IF action \notin DOMAIN permissionMap[resource] THEN FALSE
  ELSE userRoles \cap permissionMap[resource][action] # {}

\* the identity provider's answer to GET /validate for a token
\* (ok = FALSE: the call rejected)
Introspect(token) ==
  IF token = "tok-user"
  THEN [ok |-> TRUE, userId |-> "u1",
        userAccess |-> {[tenantId |-> "t1", type |-> "USER", tenantName |-> "T1"]}]
  ELSE [ok |-> FALSE, userId |-> "", userAccess |-> {}]

\* path checks of the guards
IsHealthPath(path) == path \in {"/health", "/api/health"}

\* a guard's verdict: pass (canActivate resolved true), deny (resolved
\* false) or throw
Verdict(res, user, exc) == [res |-> res, user |-> user, exc |-> exc]

\* ApiKeyAuthGuard.canActivate
ApiKeyAuthGuard(rt, h, user) ==
  IF rt.isPublic THEN Verdict("pass", user, NoException)
  ELSE IF IsHealthPath(rt.path) THEN Verdict("pass", user, NoException)
  ELSE IF h.authorization # "" /\ h.apiKey = ""
  THEN Verdict("pass", user, NoException)
  ELSE IF h.apiKey = "" THEN Verdict("throw", user, UnauthorizedException)
  ELSE IF ~validateApiKey(h.apiKey)
  THEN Verdict("throw", user, UnauthorizedException)
  ELSE
    LET requestId == <<"request-id">>  \* x-request-id, set by LoggingMiddleware
        u == IF h.sourceService = "service-b"
             THEN IF h.userEmail # "" /\ h.userRole # "" /\ h.tenantName # ""
                  THEN [set |-> TRUE, id |-> <<"api-gateway", h.userEmail>>,
                        tenantId |-> h.xTenantId, tenantName |-> h.tenantName,
                        roles |-> {h.userRole}, sourceService |-> "service-b"]
                  ELSE [set |-> TRUE, id |-> requestId,
                        tenantId |-> "service-b", tenantName |-> "service-b",
                        roles |-> {"admin"}, sourceService |-> "service-b"]
             ELSE IF h.userEmail # "" /\ h.userRole # "" /\ h.tenantName # ""
                     /\ h.xTenantId # ""
             THEN [set |-> TRUE, id |-> <<"api-gateway", h.userEmail>>,
                   tenantId |-> h.xTenantId, tenantName |-> h.tenantName,
                   roles |-> {h.userRole},
                   sourceService |-> IF h.sourceService # ""
                                     THEN h.sourceService ELSE "gateway"]
             ELSE [set |-> TRUE, id |-> requestId,
                   tenantId |-> "direct-api-access",
                   tenantName |-> "direct-api-access",
                   roles |-> {"admin"},
                   sourceService |-> IF h.sourceService # ""
                                     THEN h.sourceService
                                     ELSE "direct-api-access"]
    IN IF rt.resource # "" /\ rt.action # ""
          /\ ~validatePermissions(rt.resource, rt.action, u.roles)
       THEN Verdict("deny", u, NestForbiddenException)
       ELSE Verdict("pass", u, NoException)

\* JwtAuthGuard.canActivate: userData.userAccess.find(access =>
\* access.tenantId === tenantId), as the set of matching entries
tenantAccess_any(userData, tenantId) == userData.userAccess

tenantAccess(userData, tenantId) ==
  {a \in userData.userAccess : a.tenantId = tenantId}

\* JwtAuthGuard.canActivate: is authService.validateToken called
jwtIntrospects(rt, h, user) ==
  /\ ~rt.isPublic
  /\ ~IsHealthPath(rt.path)
  /\ ~user.set
  /\ h.authorization # ""
  /\ h.tenantid # ""

\* a JavaScript object is a function from its own property names to their
\* values; o[k] read for truthiness, "" standing for undefined, null and ''
Prop(o, k) == IF k \in DOMAIN o THEN o[k] ELSE ""

\* { ...a, ...b }: the own properties of a, overridden by those of b
Spread(a, b) ==
  [k \in DOMAIN a \cup DOMAIN b |-> IF k \in DOMAIN b THEN b[k] ELSE a[k]]

\* AuthenticationProvider.validateToken: response.data with
\* userData.roles = userData.roles || [] (a roles array, even [], is truthy)
validateToken(data) ==
  IF "roles" \in DOMAIN data THEN data ELSE Spread(data, [roles |-> {}])

\* JwtAuthGuard.canActivate: the request.user built from userData, the
\* tenantid header and the matching userAccess entry (request.params, body
\* and query carry no tenantName)
requestUser_noAssign(userData, tenantId, access) ==
  LET roles == IF access.type = "ADMIN" THEN {"admin"} ELSE {"user"}
      tenantName == IF access.tenantName # "" THEN access.tenantName
                    ELSE Prop(userData, "tenantName")
  IN Spread([id |-> IF Prop(userData, "userId") # ""
                    THEN userData.userId ELSE "unknown",
             tenantId |-> tenantId,
             tenantName |-> IF tenantName # "" THEN tenantName ELSE "unknown",
             roles |-> roles],
            userData)

requestUser(userData, tenantId, access) ==
  LET roles == IF access.type = "ADMIN" THEN {"admin"} ELSE {"user"}
      tenantName == IF access.tenantName # "" THEN access.tenantName
                    ELSE Prop(userData, "tenantName")
      assigned == Spread(userData, [roles |-> roles])
  IN Spread([id |-> IF Prop(userData, "userId") # ""
                    THEN userData.userId ELSE "unknown",
             tenantId |-> tenantId,
             tenantName |-> IF tenantName # "" THEN tenantName ELSE "unknown",
             roles |-> roles],
            assigned)

\* JwtAuthGuard.canActivate, the try block: the answer of the identity
\* provider (ok = FALSE: validateToken threw) and the tenantid header give
\* the request.user attached, or the guard throws
bearerUser(answer, tenantId) ==
  IF ~answer.ok THEN [thrown |-> TRUE, user |-> [id |-> "unknown"]]
  ELSE LET userData == validateToken(answer)
       IN IF "userAccess" \notin DOMAIN userData
          THEN [thrown |-> TRUE, user |-> [id |-> "unknown"]]
          ELSE LET access == tenantAccess(userData, tenantId)
               IN IF access = {}
                  THEN [thrown |-> TRUE, user |-> [id |-> "unknown"]]
                  ELSE [thrown |-> FALSE,
                        user |-> requestUser(userData, tenantId,
                                             CHOOSE x \in access : TRUE)]

\* JwtAuthGuard.canActivate
JwtAuthGuard(rt, h, user) ==
  IF rt.isPublic THEN Verdict("pass", user, NoException)
  ELSE IF IsHealthPath(rt.path) THEN Verdict("pass", user, NoException)
  ELSE IF user.set THEN Verdict("pass", user, NoException)
  ELSE IF h.authorization = "" THEN Verdict("throw", user, UnauthorizedException)
  ELSE IF h.tenantid = "" THEN Verdict("throw", user, UnauthorizedException)
  ELSE
    LET r == bearerUser(Introspect(h.authorization), h.tenantid)
    IN IF r.thrown
       THEN Verdict("throw", user, UnauthorizedException)
       ELSE Verdict("pass",
                    [set |-> TRUE, id |-> <<r.user.id>>,
                     tenantId |-> r.user.tenantId,
                     tenantName |-> r.user.tenantName,
                     roles |-> r.user.roles,
                     sourceService |-> ""],
                    NoException)

\* RolesGuard.canActivate
RolesGuard(rt, h, user) ==
  IF rt.isPublic THEN Verdict("pass", user, NoException)
  ELSE IF rt.roles = {} THEN Verdict("pass", user, NoException)
  ELSE IF ~user.set THEN Verdict("throw", user, NestForbiddenException)
  ELSE IF rt.roles \cap user.roles # {} THEN Verdict("pass", user, NoException)
  ELSE IF rt.resource = "" \/ rt.action = ""
  THEN Verdict("deny", user, NestForbiddenException)
  ELSE IF ~validatePermissions(rt.resource, rt.action, user.roles)
  THEN Verdict("throw", user, NestForbiddenException)
  ELSE Verdict("pass", user, NoException)

\* the three guards that do no Redis command
AuthGuard(g, rt, h, user) ==
  CASE g = "ApiKey" -> ApiKeyAuthGuard(rt, h, user)
    [] g = "Jwt" -> JwtAuthGuard(rt, h, user)
    [] g = "Roles" -> RolesGuard(rt, h, user)

\* AllExceptionsFilter.getErrorTypeFromStatus
getErrorTypeFromStatus(status) ==
  CASE status = 400 -> "BadRequest"
    [] status = 401 -> "Unauthorized"
    [] status = 403 -> "Forbidden"
    [] status = 404 -> "NotFound"
    [] status = 409 -> "Conflict"
    [] status = 422 -> "ValidationError"
    [] status = 429 -> "TooManyRequests"
    [] status = 504 -> "GatewayTimeout"
    [] status = 413 -> "PayloadTooLarge"
    [] status = 503 -> "ServiceUnavailable"
    [] OTHER -> "InternalServerError"

\* AllExceptionsFilter.getDefaultMessageForStatus
getDefaultMessageForStatus(status) ==
  CASE status = 400 -> "The request was malformed or contained invalid parameters."
    [] status = 401 -> "Authentication is required to access this resource."
    [] status = 403 -> "You do not have permission to access this resource."
    [] status = 404 -> "The requested resource could not be found."
    [] status = 409 -> "The request could not be completed due to a conflict with the current state of the resource."
    [] status = 422 -> "The request was well-formed but contained invalid fields."
    [] status = 429 -> "Too many requests have been sent in a given amount of time."
    [] status = 504 -> "The server did not receive a timely response from an upstream server."
    [] status = 503 -> "The service is currently unavailable. Please try again later."
    [] status = 413 -> "File size exceeds the limit."
    [] OTHER -> "An unexpected error occurred while processing the request."

\* err.message.includes(word), on the messages of transport errors and
\* runtime errors that occur here
includes(message, word) ==
  CASE word = "timeout" ->
         message \in {"timeout of 30000ms exceeded"}
    [] word = "Timeout" -> FALSE
    [] word = "connect" ->
         message \in {"connect ECONNREFUSED 127.0.0.1:3001",
                      "connect ETIMEDOUT 10.0.0.1:443"}
    [] OTHER -> FALSE

\* a || b on strings
OrElse(a, b) == IF a # "" THEN a ELSE b

\* AllExceptionsFilter.catch: the status and the error, message and errorCode
\* fields of the body written for an exception ("" when the field is absent).
\* An HttpException whose response is a string is the value with error "" and
\* that string as message: both paths give the error type of the status.
catch(exception) ==
  LET r0 ==
        CASE exception.class = "BaseException" ->
               [status |-> exception.status, error |-> exception.error,
                message |-> exception.message,
                errorCode |-> exception.errorCode]
          [] exception.class = "HttpException" ->
               [status |-> exception.status,
                error |-> LET t == IF exception.error # "" THEN exception.error
                                   ELSE getErrorTypeFromStatus(exception.status)
                          IN IF t = "Bad Request" THEN "BadRequest" ELSE t,
                message |-> OrElse(exception.message,
                                   getDefaultMessageForStatus(exception.status)),
                errorCode |-> exception.errorCode]
          [] exception.class = "Error" ->
               IF \/ exception.code \in {"ETIMEDOUT", "ECONNABORTED"}
                  \/ includes(exception.message, "timeout")
                  \/ includes(exception.message, "Timeout")
               THEN [status |-> 504, error |-> "GatewayTimeout",
                     message |-> "The server did not receive a timely response from an upstream server.",
                     errorCode |-> "ERR_GATEWAY_TIMEOUT"]
               ELSE IF \/ exception.code \in {"ECONNREFUSED", "ENOTFOUND"}
                       \/ includes(exception.message, "connect")
               THEN [status |-> 503, error |-> "ServiceUnavailable",
                     message |-> "The service is currently unavailable. Please try again later.",
                     errorCode |-> "ERR_SERVICE_UNAVAILABLE"]
               ELSE IF exception.response.present /\ exception.response.data.present
               THEN LET d == exception.response.data
                        st == IF exception.response.status # 0
                              THEN exception.response.status ELSE 500
                    IN IF d.error # "" /\ d.message # ""
                       THEN [status |-> st,
                             error |-> IF d.error = "Bad Request"
                                       THEN "BadRequest" ELSE d.error,
                             message |-> d.message, errorCode |-> d.errorCode]
                       ELSE [status |-> st,
                             error |-> getErrorTypeFromStatus(st),
                             message |-> OrElse(d.message,
                                           OrElse(exception.message,
                                                  getDefaultMessageForStatus(st))),
                             errorCode |-> ""]
               ELSE [status |-> 500, error |-> "UnexpectedError",
                     message |-> exception.message, errorCode |-> ""]
          [] OTHER ->
               [status |-> 500, error |-> "InternalServerError",
                message |-> "An unexpected error occurred.",
                errorCode |-> ""]
  IN IF r0.status = 413
     THEN [status |-> 413, error |-> "PayloadTooLarge",
           message |-> "File size exceeds the limit.",
           errorCode |-> "ERR_PAYLOAD_TOO_LARGE"]
     ELSE r0

(***************************************************************************)
(* ThrottlerGuard and the request pipeline                                 *)
(***************************************************************************)
\* identifier normalisation of ThrottlerGuard, on colon-separated tokens:
\* runs of ':' and leading/trailing ':' go (empty tokens dropped), then
\* /(^|:)ffff($|:)/g drops an 'ffff' token unless the match before it took
\* its leading ':'
DropEmpty(toks) == SelectSeq(toks, LAMBDA x : x # "")

RECURSIVE FfffMatched(_, _)
FfffMatched(toks, i) ==
  /\ toks[i] = "ffff"
  /\ (i = 1 \/ ~FfffMatched(toks, i - 1))

RECURSIVE DropFfffFrom(_, _)
DropFfffFrom(toks, i) ==
  IF i > Len(toks) THEN <<>>
  ELSE (IF FfffMatched(toks, i) THEN <<>> ELSE <<toks[i]>>)
         \o DropFfffFrom(toks, i + 1)

normalizeIdentifier(toks) ==
  LET t1 == DropEmpty(toks) IN DropEmpty(DropFfffFrom(t1, 1))

\* ThrottlerGuard.canActivate: the client identifier
identifierOf(h, user, ip) ==
  normalizeIdentifier(
    IF h.apiKey # ""
    THEN <<"api-key", h.apiKey>> \o
           (IF ip # <<>> THEN ip
            ELSE IF user.set /\ user.id # <<>> THEN user.id
            ELSE <<"anonymous">>)
    ELSE IF user.set /\ user.id # <<>> THEN user.id
    ELSE IF ip # <<>> THEN ip
    ELSE <<"anonymous">>)

\* ThrottlerGuard.isResourceIntensiveOperation
isResourceIntensiveOperation(method, resource) ==
  /\ resource # ""
  /\ <<method, resource>> \in {<<"POST", "user">>, <<"POST", "product">>,
                               <<"POST", "file">>, <<"POST", "sync">>,
                               <<"POST", "data">>, <<"DELETE", "data">>}

\* ThrottlerGuard.canActivate: the early returns
throttleSkipped_publicOnly(rt) == rt.isPublic

throttleSkipped(rt) == rt.isPublic \/ rt.skipThrottle \/ IsHealthPath(rt.path)

\* ThrottlerGuard.canActivate: is the tenant-level check made
tenantCheckApplies(flag, rt, user) ==
  /\ flag
  /\ user.set /\ user.tenantName # "" /\ user.tenantId # ""
  /\ isResourceIntensiveOperation(rt.method, rt.resource)

\* the X-RateLimit-* response headers
NoHdr == [set |-> FALSE, limit |-> 0, remaining |-> 0, reset |-> 0]

\* ThrottlerGuard.canActivate: headers written from the regular result
rateLimitHeaders_afterThrow(res) ==
  IF res.limited THEN NoHdr
  ELSE [set |-> TRUE, limit |-> res.limit, remaining |-> res.remaining,
        reset |-> res.resetTime]

rateLimitHeaders(res) ==
  [set |-> TRUE, limit |-> res.limit, remaining |-> res.remaining,
   reset |-> res.resetTime]

\* RedisService.incrementByThrottler: the value it resolves with
incrementByThrottler_sentinel(ok, value) == IF ok THEN value ELSE 0 - 1

incrementByThrottler(ok, value) ==
  IF ok THEN value ELSE incrementByThrottlerOnError

\* an x-request-id value: sent by the client, uuidv4() of the middleware,
\* or `service-request-${Date.now()}` of createServiceHeaders
NoId == [kind |-> "none", val |-> "", t |-> 0]

\* LoggingMiddleware.use: req.headers['x-request-id'] after the middleware
requestIdOf_regenerate(inbound) == [kind |-> "uuid", val |-> "", t |-> 0]

requestIdOf(inbound) ==
  IF inbound # "" THEN [kind |-> "client", val |-> inbound, t |-> 0]
  ELSE [kind |-> "uuid", val |-> "", t |-> 0]

\* AllExceptionsFilter.catch: errorResponse.requestId
envelopeRequestId(header) == IF header # NoId THEN header ELSE NoId

\* the requestId argument the service methods pass to createServiceHeaders
ServiceCallRequestId == NoId

\* RequestUtils.createServiceHeaders: the outbound x-request-id
createServiceHeaders(requestId, t) ==
  IF requestId # NoId THEN requestId
  ELSE [kind |-> "service", val |-> "", t |-> t]

NoKey == [id |-> <<>>, method |-> "", resource |-> "", period |-> 0]

\* a response body: its top-level fields, and the value of its success field
NoBody == [keys |-> {}, success |-> "absent"]

\* the body AllExceptionsFilter.catch writes: error, message, timestamp and
\* path always, errorCode when the exception carries one, requestId when the
\* request has the x-request-id header
errorBody(r, requestId) ==
  [keys |-> {"error", "message", "timestamp", "path"}
              \cup (IF r.errorCode # "" THEN {"errorCode"} ELSE {})
              \cup (IF requestId # NoId THEN {"requestId"} ELSE {}),
   success |-> "absent"]

\* AppController.getHealthCheck, getSystemHealthCheck,
\* getSystemHealthCheckWithKey: { status: 'ok', service, timestamp }
healthBody == [keys |-> {"status", "service", "timestamp"}, success |-> "absent"]

\* the JSON an upstream answers a 2xx exchange with, per route: a bare
\* resource, or a body that already has success and data
upstreamData(route) ==
  CASE route = "items" ->
         [keys |-> {"success", "data", "metadata"}, success |-> "true"]
    [] route = "upload" -> [keys |-> {"id", "name", "size"}, success |-> "absent"]
    [] OTHER -> [keys |-> {"items", "total"}, success |-> "absent"]

\* ResponseUtils.standardizeResponse
standardizeResponse(data) ==
  IF "success" \in data.keys /\ "data" \in data.keys THEN data
  ELSE [keys |-> {"success", "data"}, success |-> "true"]

\* what the route handler returns when nothing throws
handlerBody(route) ==
  IF RouteTable[route].upstream = "" THEN healthBody
  ELSE standardizeResponse(upstreamData(route))

IdleReq ==
  [st |-> "idle", client |-> "anon", route |-> "health", user |-> NoUser,
   pc |-> 0, phase |-> "", key |-> NoKey, limit |-> 0, ttl |-> 0,
   value |-> 0, firstKey |-> NoKey, incs |-> 0, first |-> FALSE,
   hdr |-> NoHdr, tenantHdr |-> FALSE, by |-> "",
   status |-> 0, error |-> "", errorCode |-> "",
   requestId |-> NoId, outRequestId |-> NoId, envRequestId |-> NoId,
   introspected |-> FALSE, body |-> NoBody, responses |-> 0]

NoResult ==
  [kind |-> "none", slot |-> 1, phase |-> "", kvError |-> FALSE,
   limited |-> FALSE, current |-> 0, limit |-> 0, remaining |-> 0,
   resetTime |-> 0, passed |-> FALSE, preValue |-> 0]

Chain(q) == GuardChain(q.route)

\* the guard at q.pc returned true: the next guard, or the handler
advance(q) ==
  IF q.pc = Len(Chain(q)) THEN [q EXCEPT !.st = "handler", !.pc = 0]
  ELSE [q EXCEPT !.st = "guard", !.pc = @ + 1]

\* an exception reached AllExceptionsFilter: the response is written
respond(q, exc, stage) ==
  LET r == catch(exc)
  IN [q EXCEPT !.st = "done", !.by = stage, !.status = r.status,
               !.error = r.error, !.errorCode = r.errorCode,
               !.envRequestId = envelopeRequestId(q.requestId),
               !.body = errorBody(r, envelopeRequestId(q.requestId)),
               !.responses = q.responses + 1]

\* checkRateLimit(identifier, method, resource) up to the Redis command
startCheck(q, phase, identifier, t) ==
  LET rt == RouteTable[q.route]
      lt == resolveLimit(defaultLimit, defaultTtl, rt.method, rt.resource)
  IN [q EXCEPT !.st = "incr", !.phase = phase,
               !.key = generateKey(identifier, rt.method, rt.resource, lt.ttl, t),
               !.limit = lt.limit, !.ttl = lt.ttl]

RlInit ==
  /\ defaultLimit \in 1..MaxLimit
  /\ defaultTtl = defaultTtlDefault
  /\ enableTenantRateLimits \in BOOLEAN
  /\ kv = <<>>
  /\ reqs = [i \in Slots |-> IdleReq]
  /\ rlLast = NoResult
  /\ stats = <<>>
  /\ kvFaults = 0
  /\ arrivals = 0

\* observer bookkeeping per first regular key of a request: n requests
\* checked, pass of them admitted to the handler, crossed when one of them
\* made a later check under another key
MaxSeen == MaxLimit + MaxOver + 1

NoStat == [n |-> 0, pass |-> 0, crossed |-> FALSE]

StatOf(st, k) == IF k \in DOMAIN st THEN st[k] ELSE NoStat

PutStat(st, k, v) ==
  [x \in DOMAIN st \cup {k} |-> IF x = k THEN v ELSE st[x]]

StatsAfter(q, q2) ==
  LET s1 == IF q.firstKey = NoKey /\ q2.firstKey # NoKey
            THEN PutStat(stats, q2.firstKey,
                   [StatOf(stats, q2.firstKey) EXCEPT !.n = Sat(@ + 1, MaxSeen)])
            ELSE stats
      s2 == IF q.firstKey # NoKey /\ q2.st = "incr" /\ q2.phase = "regular"
               /\ q2.key # q.firstKey
            THEN PutStat(s1, q.firstKey,
                   [StatOf(s1, q.firstKey) EXCEPT !.crossed = TRUE])
            ELSE s1
  IN IF q2.st = "handler" /\ q.st # "handler" /\ q2.firstKey # NoKey
     THEN PutStat(s2, q2.firstKey,
            [StatOf(s2, q2.firstKey) EXCEPT !.pass = Sat(@ + 1, MaxSeen)])
     ELSE s2

\* the regular checkRateLimit call of ThrottlerGuard
startRegular(q, t) ==
  LET q1 == startCheck(q, "regular",
                       identifierOf(Headers[q.client], q.user, ClientIp), t)
  IN IF q.firstKey = NoKey THEN [q1 EXCEPT !.firstKey = q1.key] ELSE q1

\* ThrottlerGuard.canActivate after a checkRateLimit call returned res
afterCheck(q, res, t) ==
  IF q.phase = "tenant"
  THEN IF res.limited
       THEN respond([q EXCEPT !.tenantHdr = TRUE], TooManyRequestsException,
                    "TenantThrottler")
       ELSE startRegular(q, t)
  ELSE LET q1 == [q EXCEPT !.hdr = rateLimitHeaders(res)]
       IN IF res.limited
          THEN respond(q1, TooManyRequestsException, "Throttler")
          ELSE advance(q1)

\* a request arrives: middleware ran, the first guard is next
Arrive(i, c, r) ==
  /\ reqs[i].st \in {"idle", "done"}
  /\ reqs' = [reqs EXCEPT ![i] =
                [IdleReq EXCEPT !.st = "guard", !.client = c, !.route = r,
                                !.pc = 1,
                                !.requestId = requestIdOf(Headers[c].requestId)]]
  /\ arrivals' = Sat(arrivals + 1, MaxRequests)
  /\ UNCHANGED <<now, cbVars, perm, extVars, defaultLimit, defaultTtl,
                 enableTenantRateLimits, kv, stats, kvFaults>>
  /\ rlLast' = NoResult

\* ApiKeyAuthGuard, JwtAuthGuard or RolesGuard runs
AuthStep(i) ==
  LET q == reqs[i]
  IN /\ q.st = "guard"
     /\ Chain(q)[q.pc] # "Throttler"
     /\ LET g == Chain(q)[q.pc]
            v == AuthGuard(g, RouteTable[q.route], Headers[q.client], q.user)
            q1 == [q EXCEPT !.user = v.user,
                            !.introspected =
                               @ \/ (g = "Jwt" /\ jwtIntrospects(
                                        RouteTable[q.route], Headers[q.client],
                                        q.user))]
            q2 == IF v.res = "pass" THEN advance(q1) ELSE respond(q1, v.exc, g)
        IN /\ reqs' = [reqs EXCEPT ![i] = q2]
           /\ stats' = StatsAfter(q, q2)
     /\ UNCHANGED <<now, cbVars, perm, extVars, defaultLimit, defaultTtl,
                    enableTenantRateLimits, kv, kvFaults, arrivals>>
     /\ rlLast' = NoResult

\* ThrottlerGuard.canActivate up to its first Redis command
ThrottlerEnter(i) ==
  LET q == reqs[i]
      rt == RouteTable[q.route]
  IN /\ q.st = "guard"
     /\ Chain(q)[q.pc] = "Throttler"
     /\ LET q2 == IF throttleSkipped(rt) THEN advance(q)
                  ELSE IF tenantCheckApplies(enableTenantRateLimits, rt, q.user)
                  THEN startCheck(q, "tenant",
                         <<"tenant", q.user.tenantName, q.user.tenantId>>, now)
                  ELSE startRegular(q, now)
        IN /\ reqs' = [reqs EXCEPT ![i] = q2]
           /\ stats' = StatsAfter(q, q2)
     /\ UNCHANGED <<now, cbVars, perm, extVars, defaultLimit, defaultTtl,
                    enableTenantRateLimits, kv, kvFaults, arrivals>>
     /\ rlLast' = NoResult

\* checkRateLimit returned: the result is recorded and the guard goes on
Returned(i, q, current, kvErr) ==
  LET res == RateLimitResult(q.limit, q.ttl, current, now)
      q2 == afterCheck(q, res, now)
  IN /\ reqs' = [reqs EXCEPT ![i] = q2]
     /\ stats' = StatsAfter(q, q2)
     /\ rlLast' = [kind |-> "result", slot |-> i, phase |-> q.phase,
                   kvError |-> kvErr, limited |-> res.limited,
                   current |-> res.current, limit |-> res.limit,
                   remaining |-> res.remaining, resetTime |-> res.resetTime,
                   passed |-> q2.st # "done", preValue |-> q.value]

\* Redis executes the INCRBY of incrementByThrottler (ok), or the command
\* rejects
RedisIncr(i, ok) ==
  LET q == reqs[i]
  IN /\ q.st = "incr"
     /\ IF ok
        THEN /\ Lookup([k \in DOMAIN kv |-> kv[k].value], q.key) < q.limit + MaxOver
             /\ kv' = incrBy(kv, q.key)
             /\ kvFaults' = kvFaults
             /\ LET v == kv'[q.key].value
                    q1 == [q EXCEPT !.value = v,
                             !.incs = IF q.phase = "regular" THEN @ + 1 ELSE @,
                             !.first = IF q.phase = "regular" /\ q.incs = 0
                                       THEN v = 1 ELSE @]
                IN IF needsExpire(q.ttl, v, 1)
                   THEN /\ reqs' = [reqs EXCEPT ![i] = [q1 EXCEPT !.st = "expire"]]
                        /\ rlLast' = NoResult
                        /\ stats' = stats
                   ELSE Returned(i, q1, incrementByThrottler(TRUE, v), FALSE)
        ELSE /\ kvFaults < MaxFaults
             /\ kv' = kv
             /\ kvFaults' = kvFaults + 1
             /\ Returned(i, q, incrementByThrottler(FALSE, 0), TRUE)
     /\ UNCHANGED <<now, cbVars, perm, extVars, defaultLimit, defaultTtl, enableTenantRateLimits,
                    arrivals>>

\* Redis executes the EXPIRE of incrementByThrottler (ok), or it rejects
RedisExpire(i, ok) ==
  LET q == reqs[i]
  IN /\ q.st = "expire"
     /\ IF ok
        THEN /\ kv' = expire(kv, q.key, q.ttl, now)
             /\ kvFaults' = kvFaults
             /\ Returned(i, q, incrementByThrottler(TRUE, q.value), FALSE)
        ELSE /\ kvFaults < MaxFaults
             /\ kv' = kv
             /\ kvFaults' = kvFaults + 1
             /\ Returned(i, q, incrementByThrottler(FALSE, q.value), TRUE)
     /\ UNCHANGED <<now, cbVars, perm, extVars, defaultLimit, defaultTtl, enableTenantRateLimits,
                    arrivals>>

\* what the business handler can end with
HandlerOutcomes == {"ok2xx", "refused"}

\* the route handler runs and the response is written
Handler(i, outcome) ==
  LET q == reqs[i]
      up == RouteTable[q.route].upstream
      exc == IF up = "" THEN NoException ELSE fnResult(up, outcome)
      q1 == IF up = "" THEN q
            ELSE [q EXCEPT !.outRequestId =
                    createServiceHeaders(ServiceCallRequestId, now)]
  IN /\ q.st = "handler"
     /\ up = "" => outcome = "ok2xx"
     /\ reqs' = [reqs EXCEPT ![i] =
                   IF exc = NoException
                   THEN [q1 EXCEPT !.st = "done", !.by = "handler", !.status = 200,
                                   !.body = handlerBody(q.route),
                                   !.responses = q.responses + 1]
                   ELSE respond(q1, exc, "handler")]
     /\ UNCHANGED <<now, cbVars, perm, extVars, defaultLimit, defaultTtl,
                    enableTenantRateLimits, kv, stats, kvFaults, arrivals>>
  /\ rlLast' = NoResult

\* the clock moves; Redis drops the keys whose expiry time has come
Advance(d) ==
  /\ now + d <= MaxTime
  /\ now' = now + d
  /\ kv' = Purge(kv, now + d)
  /\ UNCHANGED <<cbVars, perm, extVars, defaultLimit, defaultTtl, enableTenantRateLimits,
                 reqs, stats, kvFaults, arrivals>>
  /\ rlLast' = NoResult

\* the resources, actions and role sets validatePermissions is called with:
\* the ones of the permission map, and ones it does not know
PermResources == {"user", "product", "order", "report", "item", ""}
PermActions == {"create", "read", "update", "delete", "approve"}
PermRoles == SUBSET {"admin", "user", "guest"}

NoPerm == [kind |-> "none", resource |-> "", action |-> "", roles |-> {},
           result |-> FALSE]

\* a call of AuthenticationProvider.validatePermissions and what it resolves
PermCall(resource, action, userRoles) ==
  [kind |-> "call", resource |-> resource, action |-> action,
   roles |-> userRoles,
   result |-> validatePermissions(resource, action, userRoles)]

\* the arguments of a call about to be made
PermInput(resource, action, userRoles) ==
  [kind |-> "input", resource |-> resource, action |-> action,
   roles |-> userRoles, result |-> FALSE]

CheckPermission ==
  /\ perm.kind = "input"
  /\ perm' = PermCall(perm.resource, perm.action, perm.roles)
  /\ UNCHANGED <<now, cbVars, rlVars, extVars>>

(***************************************************************************)
(* Upstream failures, uploads and the exception filter                     *)
(***************************************************************************)
Services == {"service-a", "service-b", "service-c"}

\* bodies an upstream sends with a 4xx/5xx answer: JSON error envelopes
\* (error and message present), JSON without an envelope, and no body
UpstreamBodies ==
  {NoData,
   [present |-> TRUE, error |-> "Conflict", message |-> "Item already exists",
    errorCode |-> "ERR_RESOURCE_CONFLICT"],
   [present |-> TRUE, error |-> "Bad Request", message |-> "Invalid item",
    errorCode |-> ""],
   [present |-> TRUE, error |-> "", message |-> "upstream failed",
    errorCode |-> ""],
   [present |-> TRUE, error |-> "", message |-> "", errorCode |-> ""]}

UpstreamStatuses == {400, 404, 409, 413, 500, 502}

\* an error of the HTTP client (axios): Error with code, message, response
AxiosError(code, message, response) ==
  [class |-> "Error", status |-> 0, error |-> "", message |-> message,
   errorCode |-> "", code |-> code, response |-> response]

\* rejected exchanges: no answer (transport), or an answer that is not 2xx
TransportErrors ==
  {AxiosError("ECONNABORTED", "timeout of 30000ms exceeded", NoResponse),
   AxiosError("ETIMEDOUT", "connect ETIMEDOUT 10.0.0.1:443", NoResponse),
   AxiosError("ECONNREFUSED", "connect ECONNREFUSED 127.0.0.1:3001", NoResponse),
   AxiosError("ENOTFOUND", "getaddrinfo ENOTFOUND service-b", NoResponse),
   AxiosError("ECONNRESET", "socket hang up", NoResponse),
   AxiosError("ERR_NETWORK", "Network Error", NoResponse)}

HttpErrors ==
  {AxiosError(IF st < 500 THEN "ERR_BAD_REQUEST" ELSE "ERR_BAD_RESPONSE",
              "Request failed",
              [present |-> TRUE, status |-> st, data |-> d]) :
     st \in UpstreamStatuses, d \in UpstreamBodies}

AxiosErrors == TransportErrors \cup HttpErrors

\* new HttpException(response, status) with an object response
HttpException(response, status) ==
  [class |-> "HttpException", status |-> status, error |-> response.error,
   message |-> response.message, errorCode |-> response.errorCode,
   code |-> "", response |-> NoResponse]

\* a thrown value that is not an Error: the object itself
PlainObject(obj) ==
  [class |-> "PlainObject", status |-> 0, error |-> obj.error,
   message |-> obj.message, errorCode |-> obj.errorCode, code |-> "",
   response |-> NoResponse]

\* ServiceXService.handleError on the error of the HTTP client: the value it
\* throws. service-a wraps the upstream body in an HttpException with the
\* upstream status; service-b and service-c throw the body itself, and the
\* error itself when there was no answer.
handleErrorThrown(serviceName, err) ==
  IF \/ err.code \in {"ECONNABORTED", "ETIMEDOUT"}
     \/ includes(err.message, "timeout")
     \/ includes(err.message, "Timeout")
  THEN GatewayTimeoutException
  ELSE IF \/ err.code \in {"ECONNREFUSED", "ENOTFOUND"}
          \/ includes(err.message, "connect")
  THEN ServiceUnavailableException
  ELSE IF err.response.present
  THEN IF err.response.status = 404 THEN ResourceNotFoundException
       ELSE IF serviceName = "service-a"
       THEN HttpException(
              IF err.response.data.present THEN err.response.data
              ELSE [present |-> TRUE, error |-> "Unknown error",
                    message |-> "Service A request failed", errorCode |-> ""],
              IF err.response.status # 0 THEN err.response.status ELSE 500)
       ELSE PlainObject(
              IF err.response.data.present THEN err.response.data
              ELSE [present |-> TRUE, error |-> "InternalServerError",
                    message |-> "Service request failed", errorCode |-> ""])
  ELSE IF serviceName = "service-a"
  THEN HttpException([present |-> TRUE, error |-> "InternalServerError",
                      message |-> "Service A request failed",
                      errorCode |-> ""], 500)
  ELSE err

\* FileTooLargeException()
FileTooLargeException ==
  BaseException("FileTooLarge", "File size exceeds the limit.", 413,
                "ERR_FILE_TOO_LARGE")

\* ValidationException(message, validationErrors)
ValidationException ==
  BaseException("ValidationError", "Validation failed", 422,
                "ERR_VALIDATION_FAILED")

\* Nest PayloadTooLargeException, thrown by FileInterceptor for the
\* LIMIT_FILE_SIZE error of the multipart parser
NestPayloadTooLargeException ==
  [class |-> "HttpException", status |-> 413, error |-> "Payload Too Large",
   message |-> "File too large", errorCode |-> "", code |-> "",
   response |-> NoResponse]

\* Nest BadRequestException of the global ValidationPipe
NestBadRequestException ==
  [class |-> "HttpException", status |-> 400, error |-> "Bad Request",
   message |-> "property should not exist", errorCode |-> "", code |-> "",
   response |-> NoResponse]

\* a runtime error thrown inside a handler
RuntimeError ==
  AxiosError("", "Cannot read properties of undefined (reading 'split')",
             NoResponse)

\* MulterModule limits.fileSize and MaxFileSizeValidator maxSize, bytes
maxSize == 10485760

FileSizes == {maxSize - 1, maxSize, maxSize + 1}

\* POST files: FileInterceptor (multipart parser limit) and then
\* ParseFilePipe(MaxFileSizeValidator: valid when size < maxSize); what the
\* upload of a file of this size throws
uploadFileThrows(size) ==
  IF size > maxSize THEN NestPayloadTooLargeException
  ELSE IF ~(size < maxSize) THEN FileTooLargeException
  ELSE NoException

\* values that guards, pipes and handlers throw besides upstream failures
RaisedValues ==
  {UnauthorizedException, NestForbiddenException, TooManyRequestsException,
   NestBadRequestException, ValidationException, FileTooLargeException,
   ServiceUnavailableException, RuntimeError}

NoFailure ==
  [st |-> "idle", origin |-> "", service |-> "", cause |-> NoException,
   size |-> 0, thrown |-> NoException,
   status |-> 0, error |-> "", message |-> "", errorCode |-> ""]

\* a service call whose exchange is rejected: catchError(handleError)
ServiceFails(s, err) ==
  /\ flt.st = "idle"
  /\ flt' = [flt EXCEPT !.st = "thrown", !.origin = "upstream", !.service = s,
                        !.cause = err, !.thrown = handleErrorThrown(s, err)]
  /\ UNCHANGED <<now, cbVars, rlVars, perm, cacheVars, srv, moreVars>>

\* POST /api/service-c/files with a file of the given size
Upload(size) ==
  /\ flt.st = "idle"
  /\ flt' = IF uploadFileThrows(size) = NoException
            THEN [flt EXCEPT !.st = "accepted", !.origin = "upload",
                             !.size = size]
            ELSE [flt EXCEPT !.st = "thrown", !.origin = "upload",
                             !.size = size, !.thrown = uploadFileThrows(size)]
  /\ UNCHANGED <<now, cbVars, rlVars, perm, cacheVars, srv, moreVars>>

\* a guard, pipe or handler throws
Raise(e) ==
  /\ flt.st = "idle"
  /\ flt' = [flt EXCEPT !.st = "thrown", !.origin = "gateway", !.thrown = e]
  /\ UNCHANGED <<now, cbVars, rlVars, perm, cacheVars, srv, moreVars>>

\* AllExceptionsFilter.catch writes the response
Catch ==
  /\ flt.st = "thrown"
  /\ LET r == catch(flt.thrown)
     IN flt' = [flt EXCEPT !.st = "written", !.status = r.status,
                           !.error = r.error, !.message = r.message,
                           !.errorCode = r.errorCode]
  /\ UNCHANGED <<now, cbVars, rlVars, perm, cacheVars, srv, moreVars>>

(***************************************************************************)
(* CacheService and the cached service-a operations                        *)
(***************************************************************************)
MaxElapsed == 350000
MaxWrites == 1

CacheStep == 350000

Tenants == {"t1", "t2"}
ItemId == "i1"
CachedResources == {"item", "categories", "statistics"}

\* CacheService.createCacheKey(scope, identifier, ...parts)
createCacheKey(scope, identifier, parts) == <<scope, identifier>> \o parts

\* the cache key of a service-a read, and the ttl (seconds) it is cached with
cacheKeyOf(tenantId, res) ==
  createCacheKey("service-a", tenantId,
                 IF res = "item" THEN <<"item", ItemId>> ELSE <<res>>)

cacheTtlOf(res) == IF res = "categories" THEN 600 ELSE 300

CacheKeys == {cacheKeyOf(t, r) : t \in Tenants, r \in CachedResources}

\* JSON.stringify and JSON.parse on a value that came from JSON
JSONstringify(value) == <<"json", value>>
JSONparse(string) == string[2]

Null == [null |-> TRUE]

\* RedisService.getValue: the reply, or rejected when the command fails
\* (the promise is returned without await, so the try block catches nothing)
getValue(store, key, ok) ==
  IF ~ok THEN [rejected |-> TRUE, value |-> Null]
  ELSE [rejected |-> FALSE,
        value |-> IF key \in DOMAIN store THEN store[key].val ELSE Null]

\* RedisService.setValue: SET key value EX ttl; an error is logged
setValue(store, key, value, ttl, t, ok) ==
  IF ~ok THEN store
  ELSE [k \in DOMAIN store \cup {key} |->
          IF k = key THEN [val |-> value, exp |-> t + ttl * 1000] ELSE store[k]]

\* RedisService.deleteKey: DEL key, rejected when the command fails
deleteKey(store, key, ok) ==
  IF ~ok THEN [rejected |-> TRUE, store |-> store]
  ELSE [rejected |-> FALSE,
        store |-> [k \in DOMAIN store \ {key} |-> store[k]]]

\* CacheService.get that lets the KV error through
cacheGet_rethrow(store, key, ok) ==
  IF ~ok THEN [threw |-> TRUE, value |-> [null |-> TRUE]]
  ELSE [threw |-> FALSE,
        value |-> IF key \in DOMAIN store THEN store[key].val[2]
                  ELSE [null |-> TRUE]]

\* CacheService.get that never finds anything
cacheGet_alwaysMiss(store, key, ok) ==
  [threw |-> FALSE, value |-> [null |-> TRUE]]

\* CacheService.get: null for a missing key and for a KV error
cacheGet(store, key, ok) ==
  LET r == getValue(store, key, ok)
  IN IF r.rejected THEN [threw |-> FALSE, value |-> Null]
     ELSE IF r.value = Null THEN [threw |-> FALSE, value |-> Null]
     ELSE [threw |-> FALSE, value |-> JSONparse(r.value)]

\* CacheService.set: nothing reaches the caller
cacheSet(store, key, value, ttl, t, ok) ==
  [threw |-> FALSE,
   store |-> setValue(store, key, JSONstringify(value), ttl, t, ok)]

\* CacheService.delete: a rejected DEL is caught and logged
cacheDelete(store, key, ok) ==
  LET r == deleteKey(store, key, ok)
  IN [threw |-> FALSE, store |-> r.store]

\* CacheService.getOrSet: the value returned, whether the factory ran, what
\* was thrown ("kv" for a KV error, "upstream" for the factory's exception)
\* and the store afterwards
getOrSet(store, key, factoryValue, factoryThrows, ttl, t, getOk, setOk) ==
  LET c == cacheGet(store, key, getOk)
  IN IF c.threw
     THEN [value |-> Null, ranFactory |-> FALSE, threw |-> "kv", store |-> store]
     ELSE IF c.value # Null
     THEN [value |-> c.value, ranFactory |-> FALSE, threw |-> "none",
           store |-> store]
     ELSE IF factoryThrows
     THEN [value |-> Null, ranFactory |-> TRUE, threw |-> "upstream",
           store |-> store]
     ELSE LET w == cacheSet(store, key, factoryValue, ttl, t, setOk)
          IN [value |-> IF w.threw THEN Null ELSE factoryValue,
              ranFactory |-> TRUE,
              threw |-> IF w.threw THEN "kv" ELSE "none",
              store |-> w.store]

\* what the upstream answers a read with, standardized
upstreamRead(tenantId, res, ver) ==
  [keys |-> {"success", "data"}, success |-> "true",
   data |-> <<tenantId, res, ver>>]

\* the cache keys a write deletes once its upstream call succeeded
invalidates(op, tenantId, category) ==
  CASE op = "create" -> {cacheKeyOf(tenantId, "categories")}
    [] op = "update" ->
         {cacheKeyOf(tenantId, "item")}
           \cup (IF category THEN {cacheKeyOf(tenantId, "categories")} ELSE {})
    [] op = "delete" ->
         {cacheKeyOf(tenantId, "item"), cacheKeyOf(tenantId, "categories"),
          cacheKeyOf(tenantId, "statistics")}

\* the deletes of a write, one after the other (or Promise.all of them)
RECURSIVE deleteAll(_, _, _)
deleteAll(store, keys, ok) ==
  IF keys = {} THEN [threw |-> FALSE, store |-> store]
  ELSE LET k == CHOOSE x \in keys : TRUE
           d == cacheDelete(store, k, ok)
           rest == deleteAll(d.store, keys \ {k}, ok)
       IN [threw |-> d.threw \/ rest.threw, store |-> rest.store]

NoGet == [valid |-> FALSE, value |-> Null, ranFactory |-> FALSE]

NoCacheEvent ==
  [kind |-> "none", tenantId |-> "", res |-> "",
   getOk |-> TRUE, setOk |-> TRUE, delOk |-> TRUE, upOk |-> TRUE,
   category |-> FALSE, value |-> Null, ranFactory |-> FALSE,
   threw |-> "none", prev |-> NoGet]

CacheInit ==
  /\ cacheKv = <<>>
  /\ upVer = [t \in Tenants |-> 0]
  /\ writes = 0
  /\ lastGet = [k \in CacheKeys |-> NoGet]
  /\ cacheLast = NoCacheEvent

\* getItemById, getCategories, getItemStatistics for a tenant
GetCached(tenantId, res, getOk, setOk, upOk) ==
  LET key == cacheKeyOf(tenantId, res)
      fv == upstreamRead(tenantId, res, upVer[tenantId])
      r == getOrSet(cacheKv, key, fv, ~upOk, cacheTtlOf(res), now, getOk, setOk)
  IN /\ cacheKv' = r.store
     /\ cacheLast' = [NoCacheEvent EXCEPT
                        !.kind = "get", !.tenantId = tenantId, !.res = res,
                        !.getOk = getOk, !.setOk = setOk, !.upOk = upOk,
                        !.value = r.value,
                        !.ranFactory = r.ranFactory, !.threw = r.threw,
                        !.prev = lastGet[key]]
     /\ lastGet' = [lastGet EXCEPT ![key] =
                      IF getOk /\ setOk /\ r.threw = "none"
                      THEN [valid |-> TRUE, value |-> r.value,
                            ranFactory |-> r.ranFactory]
                      ELSE NoGet]
     /\ UNCHANGED <<now, cbVars, rlVars, perm, flt, srv, upVer, writes, moreVars>>

\* createItem, updateItem, deleteItem for a tenant
WriteItem(op, tenantId, category, upOk, delOk) ==
  LET keys == invalidates(op, tenantId, category)
      d == deleteAll(cacheKv, keys, delOk)
  IN /\ writes < MaxWrites
     /\ (op # "update") => ~category
     /\ writes' = writes + 1
     /\ upVer' = IF upOk THEN [upVer EXCEPT ![tenantId] = @ + 1] ELSE upVer
     /\ cacheKv' = IF upOk THEN d.store ELSE cacheKv
     /\ cacheLast' = [NoCacheEvent EXCEPT
                        !.kind = op, !.tenantId = tenantId, !.delOk = delOk,
                        !.upOk = upOk, !.category = category,
                        !.threw = IF ~upOk THEN "upstream"
                                  ELSE IF d.threw THEN "kv" ELSE "none"]
     /\ lastGet' = [k \in CacheKeys |->
                      IF upOk /\ k \in keys THEN NoGet ELSE lastGet[k]]
     /\ UNCHANGED <<now, cbVars, rlVars, perm, flt, srv, moreVars>>

\* time passes; Redis drops the cache entries whose EX has run out
Elapse(d) ==
  /\ now + d <= StartTime + MaxElapsed
  /\ now' = now + d
  /\ cacheKv' = [k \in {x \in DOMAIN cacheKv : cacheKv[x].exp > now + d} |->
                   cacheKv[k]]
  /\ lastGet' = [k \in CacheKeys |->
                   IF k \in DOMAIN cacheKv /\ cacheKv[k].exp > now + d
                   THEN lastGet[k] ELSE NoGet]
  /\ cacheLast' = NoCacheEvent
  /\ UNCHANGED <<cbVars, rlVars, perm, flt, srv, upVer, writes, moreVars>>

(***************************************************************************)
(* bootstrap: the signal handlers and the shutdown sequence                *)
(***************************************************************************)
MaxServing == 2
MaxServed == 2

Signals == {"SIGTERM", "SIGINT"}

\* after `await app.listen(port)`: the server accepts, the Redis client of
\* RedisService is connected, no handler runs
Listening ==
  [listening |-> TRUE, serving |-> 0, served |-> 0, redis |-> "open",
   pc |-> [s \in Signals |-> "idle"], exited |-> FALSE, exitCode |-> 0]

\* the HTTP server accepts a request
AcceptRequest ==
  /\ ~srv.exited /\ srv.listening
  /\ srv.serving < MaxServing
  /\ srv' = [srv EXCEPT !.serving = @ + 1]
  /\ UNCHANGED <<now, cbVars, rlVars, perm, flt, cacheVars, moreVars>>

\* a request is answered (served counts them, up to MaxServed)
FinishRequest ==
  /\ ~srv.exited /\ srv.serving > 0
  /\ srv' = [srv EXCEPT !.serving = @ - 1,
                        !.served = Sat(@ + 1, MaxServed)]
  /\ UNCHANGED <<now, cbVars, rlVars, perm, flt, cacheVars, moreVars>>

\* process.on(signal, ...): the handler starts and calls redisClient.quit()
Signal(s) ==
  /\ ~srv.exited /\ srv.pc[s] = "idle"
  /\ srv' = [srv EXCEPT !.pc[s] = "quit"]
  /\ UNCHANGED <<now, cbVars, rlVars, perm, flt, cacheVars, moreVars>>

\* `await redisService.redisClient.quit()` settles: the client is closed; on
\* a client that is closed already quit() rejects, and the catch block exits
\* with code 1. Then the handler calls app.close().
RedisQuit(s) ==
  /\ ~srv.exited /\ srv.pc[s] = "quit"
  /\ srv' = IF srv.redis = "open"
            THEN [srv EXCEPT !.redis = "closed", !.pc[s] = "close"]
            ELSE [srv EXCEPT !.exited = TRUE, !.exitCode = 1, !.pc[s] = "done"]
  /\ UNCHANGED <<now, cbVars, rlVars, perm, flt, cacheVars, moreVars>>

\* app.close(): the HTTP server stops accepting
AppClose(s) ==
  /\ ~srv.exited /\ srv.pc[s] = "close"
  /\ srv' = [srv EXCEPT !.listening = FALSE, !.pc[s] = "drain"]
  /\ UNCHANGED <<now, cbVars, rlVars, perm, flt, cacheVars, moreVars>>

\* `await app.close()` settles once the requests in flight are answered;
\* process.exit(0)
Exit(s) ==
  /\ ~srv.exited /\ srv.pc[s] = "drain"
  /\ srv.serving = 0
  /\ srv' = [srv EXCEPT !.exited = TRUE, !.exitCode = 0, !.pc[s] = "done"]
  /\ UNCHANGED <<now, cbVars, rlVars, perm, flt, cacheVars, moreVars>>

(***************************************************************************)
(* Bearer mode: the principal JwtAuthGuard attaches                        *)
(***************************************************************************)

\* the userAccess lists the identity provider answers with (at most one
\* entry per tenant)
AccessLists ==
  {{},
   {[tenantId |-> "t1", type |-> "USER", tenantName |-> "T1"]},
   {[tenantId |-> "t1", type |-> "ADMIN", tenantName |-> "T1"]},
   {[tenantId |-> "t1", type |-> "USER", tenantName |-> "T1"],
    [tenantId |-> "t2", type |-> "ADMIN", tenantName |-> "T2"]}}

\* further properties of the answer's body, next to userId and userAccess
\* ([userId |-> "u1"]: none)
ExtraFields ==
  {[userId |-> "u1"], [roles |-> {}], [roles |-> {"admin"}],
   [tenantId |-> "t2"], [tenantId |-> ""], [id |-> "root"],
   [roles |-> {"admin"}, tenantId |-> "t2"]}

\* what GET ${authUrl}/validate can answer (ok = FALSE: the call rejected)
IntrospectionAnswers ==
  {Spread([ok |-> ok, userId |-> "u1", userAccess |-> acc], extra) :
     ok \in BOOLEAN, acc \in AccessLists, extra \in ExtraFields}

\* the TenantId parameter decorator
TenantId(user, headers) ==
  IF Prop(user, "tenantId") # "" THEN user.tenantId ELSE headers.xTenantId

JwtInit ==
  jwt \in [st : {"arrived"},
           headers : [tenantid : {"", "t1", "t2"}, xTenantId : {"", "t3"}],
           answer : IntrospectionAnswers,
           user : {[id |-> "unknown"]},
           tenantIdArg : {""}]

\* JwtAuthGuard.canActivate for a request with an Authorization header and
\* no API key, on a route that is neither public nor a health path
JwtCanActivate ==
  /\ jwt.st = "arrived"
  /\ LET r == bearerUser(jwt.answer, jwt.headers.tenantid)
     IN jwt' = IF jwt.headers.tenantid = "" \/ r.thrown
               THEN [jwt EXCEPT !.st = "rejected"]
               ELSE [jwt EXCEPT !.st = "authenticated", !.user = r.user]
  /\ UNCHANGED <<now, cbVars, rlVars, perm, flt, cacheVars, srv, lim, raceVars>>

\* the handler is called with @TenantId() tenantId
JwtHandler ==
  /\ jwt.st = "authenticated"
  /\ jwt' = [jwt EXCEPT !.st = "handled",
                        !.tenantIdArg = TenantId(jwt.user, jwt.headers)]
  /\ UNCHANGED <<now, cbVars, rlVars, perm, flt, cacheVars, srv, lim, raceVars>>

JwtIdle ==
  [st |-> "idle", headers |-> [tenantid |-> "", xTenantId |-> ""],
   answer |-> [ok |-> FALSE], user |-> [id |-> "unknown"], tenantIdArg |-> ""]

(***************************************************************************)
(* ThrottlerService: the limit and ttl lookups                             *)
(***************************************************************************)

\* ThrottlerService.getTtl
getTtl(dt, method, resource) ==
  IF resource # "" /\ Lookup(ttlMap(dt), <<method, resource>>) # 0
  THEN ttlMap(dt)[<<method, resource>>]
  ELSE IF Lookup(ttlMap(dt), <<method>>) # 0
  THEN ttlMap(dt)[<<method>>]
  ELSE dt

\* ThrottlerService.getLimit
getLimit(dl, method, resource) ==
  IF resource # "" /\ Lookup(limitMap(dl), <<method, resource>>) # 0
  THEN limitMap(dl)[<<method, resource>>]
  ELSE IF Lookup(limitMap(dl), <<method>>) # 0
  THEN limitMap(dl)[<<method>>]
  ELSE dl

\* the methods and resources the lookups are asked for (resource "": none)
Methods == {"GET", "POST", "PUT", "DELETE", "PATCH"}
Resources ==
  {"", "user", "product", "file", "function", "version", "data", "sync",
   "chat", "item"}

NoPair == [limit |-> 0, ttl |-> 0]

LimIdle ==
  [st |-> "idle", method |-> "GET", resource |-> "", applied |-> NoPair,
   looked |-> NoPair]

LimInit ==
  lim \in [st : {"asked"}, method : Methods, resource : Resources,
           applied : {NoPair}, looked : {NoPair}]

\* checkRateLimit resolves the limit and ttl it applies to the request
ResolveApplied ==
  /\ lim.st = "asked"
  /\ lim' = [lim EXCEPT !.st = "applied",
               !.applied = resolveLimit(defaultLimit, defaultTtl,
                                        lim.method, lim.resource)]
  /\ UNCHANGED <<now, cbVars, rlVars, perm, flt, cacheVars, srv, jwt, raceVars>>

\* getLimit and getTtl are asked for the same method and resource
LookUp ==
  /\ lim.st = "applied"
  /\ lim' = [lim EXCEPT !.st = "looked",
               !.looked = [limit |-> getLimit(defaultLimit, lim.method,
                                              lim.resource),
                           ttl |-> getTtl(defaultTtl, lim.method,
                                          lim.resource)]]
  /\ UNCHANGED <<now, cbVars, rlVars, perm, flt, cacheVars, srv, jwt, raceVars>>

(***************************************************************************)
(* A cached read of an item racing with a write of the same item           *)
(***************************************************************************)
MaxVersion == 2

RaceTenant == "t1"
RaceKey == cacheKeyOf(RaceTenant, "item")
RaceOps == {"update", "delete"}
RaceOutcomes == {"ok2xx", "timeout"}

\* CacheService.getOrSet after `await this.get(key)`: return the cached
\* value, or call the factory
afterGet(cachedValue) == IF cachedValue # Null THEN "return" ELSE "factory"

\* getOrSet that caches whatever the factory ended with
afterFactory_setsAnyway(threw) == "set"

\* CacheService.getOrSet after `await factory()`: a rejection leaves
\* getOrSet, a value goes on to `await this.set(key, newValue, ttl)`
afterFactory(threw) == IF threw THEN "throw" ELSE "set"

\* what the factory of getItemById rejects with
RaceError ==
  [keys |-> {"error", "message"}, success |-> "false",
   data |-> <<RaceTenant, "item", 0 - 1>>]

RdIdle == [pc |-> "idle", body |-> Null, threw |-> FALSE, last |-> "none"]

WrIdle == [pc |-> "idle", op |-> "update"]

RaceInit == rd = RdIdle /\ wr = WrIdle

\* getOrSet once the factory has settled
factoryDone(r, threw, value, kind) ==
  IF afterFactory(threw) = "set"
  THEN [r EXCEPT !.pc = "fetched", !.body = value, !.threw = threw]
  ELSE [r EXCEPT !.pc = "idle", !.threw = threw, !.last = kind]

\* getItemById: getOrSet awaits CacheService.get
ReadStart ==
  /\ rd.pc = "idle"
  /\ LET c == cacheGet(cacheKv, RaceKey, TRUE)
     IN rd' = IF afterGet(c.value) = "return"
              THEN [RdIdle EXCEPT !.last = "hit", !.body = c.value]
              ELSE [RdIdle EXCEPT !.pc = "miss"]
  /\ UNCHANGED <<now, cbVars, rlVars, perm, flt, cacheVars, srv, jwt, lim, wr>>

\* the factory calls executeWithCircuitBreaker: checkState
ReadAdmit ==
  LET cs == getCircuit(circuits, "service-a")
      b == cs["service-a"]
  IN /\ rd.pc = "miss"
     /\ circuits' = [cs EXCEPT !["service-a"] = checkState(b, now)]
     /\ rd' = IF checkStateThrows(b, now)
              THEN factoryDone(rd, TRUE, RaceError, "rejected")
              ELSE [rd EXCEPT !.pc = "fetching"]
     /\ UNCHANGED <<now, inFlight, consecFailures, succSinceHalfOpen, cbLast,
                    rlVars, perm, flt, cacheVars, srv, jwt, lim, wr>>

\* service-a answers the GET with the item as it is now, or the call fails
ReadAnswer(outcome) ==
  LET b == circuits["service-a"]
      r == fnResult("service-a", outcome)
  IN /\ rd.pc = "fetching"
     /\ circuits' = [circuits EXCEPT !["service-a"] =
                       IF r # NoException THEN onFailure(b, r, now)
                       ELSE onSuccess(b)]
     /\ rd' = IF r # NoException
              THEN factoryDone(rd, TRUE, RaceError, "failed")
              ELSE factoryDone(rd, FALSE,
                               upstreamRead(RaceTenant, "item",
                                            upVer[RaceTenant]), "failed")
     /\ UNCHANGED <<now, inFlight, consecFailures, succSinceHalfOpen, cbLast,
                    rlVars, perm, flt, cacheVars, srv, jwt, lim, wr>>

\* getOrSet awaits CacheService.set and returns
ReadSet ==
  /\ rd.pc = "fetched"
  /\ cacheKv' = cacheSet(cacheKv, RaceKey, rd.body, cacheTtlOf("item"), now,
                         TRUE).store
  /\ rd' = [rd EXCEPT !.pc = "idle", !.last = "filled"]
  /\ UNCHANGED <<now, cbVars, rlVars, perm, flt, srv, upVer, writes, lastGet,
                 cacheLast, jwt, lim, wr>>

\* updateItem / deleteItem call executeWithCircuitBreaker: checkState
WriteAdmit(op) ==
  LET cs == getCircuit(circuits, "service-a")
      b == cs["service-a"]
  IN /\ wr.pc = "idle"
     /\ upVer[RaceTenant] < MaxVersion
     /\ circuits' = [cs EXCEPT !["service-a"] = checkState(b, now)]
     /\ wr' = IF checkStateThrows(b, now) THEN [wr EXCEPT !.op = op]
              ELSE [wr EXCEPT !.pc = "calling", !.op = op]
     /\ UNCHANGED <<now, inFlight, consecFailures, succSinceHalfOpen, cbLast,
                    rlVars, perm, flt, cacheVars, srv, jwt, lim, rd>>

\* service-a carries out the PUT / DELETE, or the call fails
WriteAnswer(outcome) ==
  LET b == circuits["service-a"]
      r == fnResult("service-a", outcome)
  IN /\ wr.pc = "calling"
     /\ circuits' = [circuits EXCEPT !["service-a"] =
                       IF r # NoException THEN onFailure(b, r, now)
                       ELSE onSuccess(b)]
     /\ upVer' = IF r = NoException
                 THEN [upVer EXCEPT ![RaceTenant] = @ + 1] ELSE upVer
     /\ wr' = [wr EXCEPT !.pc = IF r = NoException THEN "invalidating"
                                ELSE "idle"]
     /\ UNCHANGED <<now, inFlight, consecFailures, succSinceHalfOpen, cbLast,
                    rlVars, perm, flt, srv, cacheKv, writes, lastGet,
                    cacheLast, jwt, lim, rd>>

\* the write deletes its cache keys and returns
WriteInvalidate ==
  /\ wr.pc = "invalidating"
  /\ cacheKv' = deleteAll(cacheKv, invalidates(wr.op, RaceTenant, FALSE),
                          TRUE).store
  /\ wr' = [wr EXCEPT !.pc = "idle"]
  /\ UNCHANGED <<now, cbVars, rlVars, perm, flt, srv, upVer, writes, lastGet,
                 cacheLast, jwt, lim, rd>>

MoreInit ==
  /\ jwt = JwtIdle
  /\ lim = LimIdle
  /\ RaceInit

ExtInit ==
  /\ flt = NoFailure
  /\ CacheInit
  /\ srv = Listening
  /\ MoreInit

vars == <<now, cbVars, rlVars, perm, extVars>>

(***************************************************************************)
(* Specifications                                                          *)
(***************************************************************************)
\* the breakers alone
CbSpecInit ==
  /\ perm = NoPerm
  /\ now \in TimeSteps
  /\ CbInit
  /\ ExtInit
  /\ RlInit /\ defaultLimit = 1 /\ enableTenantRateLimits = FALSE

CbNext ==
  \/ \E u \in Upstreams : Execute(u)
  \/ \E u \in Upstreams, o \in Outcomes : Settle(u, o)
  \/ \E d \in TimeSteps : Advance(d)

SpecCB == CbSpecInit /\ [][CbNext]_vars

\* authenticated callers racing through the rate limiter
RlSpecInit ==
  /\ perm = NoPerm
  /\ now = StartTime
  /\ CbInit
  /\ ExtInit
  /\ RlInit /\ enableTenantRateLimits = FALSE

RlNext ==
  \/ \E i \in Slots :
       /\ arrivals < MaxRequests
       /\ \A j \in Slots : j < i => reqs[j].st \notin {"idle", "done"}
       /\ Arrive(i, "directKey", "items")
  \/ \E i \in Slots : AuthStep(i)
  \/ \E i \in Slots : ThrottlerEnter(i)
  \/ \E i \in Slots, ok \in BOOLEAN : RedisIncr(i, ok)
  \/ \E i \in Slots, ok \in BOOLEAN : RedisExpire(i, ok)
  \/ \E i \in Slots : Handler(i, "ok2xx")
  \/ Advance(MaxTime - StartTime)

SpecRL == RlSpecInit /\ [][RlNext]_vars

\* one request at a time, every caller and every route
PipeSpecInit ==
  /\ perm = NoPerm
  /\ now = StartTime
  /\ CbInit
  /\ ExtInit
  /\ RlInit

PipeNext ==
  \/ \E c \in {"anon", "keyUser", "bearer"}, r \in RouteIds : Arrive(1, c, r)
  \/ AuthStep(1)
  \/ ThrottlerEnter(1)
  \/ RedisIncr(1, TRUE)
  \/ RedisExpire(1, TRUE)
  \/ \E o \in HandlerOutcomes : Handler(1, o)

SpecPipe == PipeSpecInit /\ [][PipeNext]_vars

\* one request at a time, every caller, the routes that differ in their
\* authentication and authorization metadata
AuthSpecInit ==
  /\ perm = NoPerm
  /\ now = StartTime
  /\ CbInit
  /\ ExtInit
  /\ RlInit /\ enableTenantRateLimits = FALSE

AuthNext ==
  \/ \E c \in ClientIds,
        r \in {"categories", "statistics", "syscheck", "health"} :
       Arrive(1, c, r)
  \/ AuthStep(1)
  \/ ThrottlerEnter(1)
  \/ RedisIncr(1, TRUE)
  \/ RedisExpire(1, TRUE)
  \/ \E o \in HandlerOutcomes : Handler(1, o)

SpecAuth == AuthSpecInit /\ [][AuthNext]_vars

\* validatePermissions called with every input
PermSpecInit ==
  /\ perm \in {PermInput(r, a, ro) :
                 r \in PermResources, a \in PermActions, ro \in PermRoles}
  /\ now = StartTime
  /\ CbInit
  /\ ExtInit
  /\ RlInit /\ defaultLimit = 1 /\ enableTenantRateLimits = FALSE

PermNext == CheckPermission

SpecPerm == PermSpecInit /\ [][PermNext]_vars

\* failures of every origin through the exception filter
FltSpecInit ==
  /\ perm = NoPerm
  /\ now = StartTime
  /\ CbInit
  /\ ExtInit
  /\ RlInit /\ defaultLimit = 1 /\ enableTenantRateLimits = FALSE

FltNext ==
  \/ \E s \in Services, err \in AxiosErrors : ServiceFails(s, err)
  \/ \E size \in FileSizes : Upload(size)
  \/ \E e \in RaisedValues : Raise(e)
  \/ Catch

SpecFlt == FltSpecInit /\ [][FltNext]_vars

\* cached reads and invalidating writes of one tenant of service-a and the
\* deletes of another tenant, one operation at a time
CacheSpecInit ==
  /\ perm = NoPerm
  /\ now = StartTime
  /\ CbInit
  /\ ExtInit
  /\ RlInit /\ defaultLimit = 1 /\ enableTenantRateLimits = FALSE

CacheNext ==
  \/ \E r \in CachedResources, getOk, setOk, upOk \in BOOLEAN :
       /\ getOk \/ setOk
       /\ GetCached("t1", r, getOk, setOk, upOk)
  \/ \E op \in {"create", "update", "delete"},
        category, upOk, delOk \in BOOLEAN :
       WriteItem(op, "t1", category, upOk, delOk)
  \/ WriteItem("delete", "t2", FALSE, TRUE, TRUE)
  \/ Elapse(CacheStep)

SpecCache == CacheSpecInit /\ [][CacheNext]_vars

\* the process from listening to exit
ShutSpecInit ==
  /\ perm = NoPerm
  /\ now = StartTime
  /\ CbInit
  /\ ExtInit
  /\ RlInit /\ defaultLimit = 1 /\ enableTenantRateLimits = FALSE

ShutNext ==
  \/ AcceptRequest
  \/ FinishRequest
  \/ \E s \in Signals : Signal(s)
  \/ \E s \in Signals : RedisQuit(s)
  \/ \E s \in Signals : AppClose(s)
  \/ \E s \in Signals : Exit(s)

SpecShut == ShutSpecInit /\ [][ShutNext]_vars

\* bearer-mode requests, every tenant header and introspection answer
JwtSpecInit ==
  /\ perm = NoPerm
  /\ now = StartTime
  /\ CbInit
  /\ flt = NoFailure /\ CacheInit /\ srv = Listening
  /\ JwtInit /\ lim = LimIdle /\ RaceInit
  /\ RlInit /\ defaultLimit = 1 /\ enableTenantRateLimits = FALSE

JwtNext == JwtCanActivate \/ JwtHandler

SpecJwt == JwtSpecInit /\ [][JwtNext]_vars

\* one breaker under a burst of calls
BurstOutcomes == {"ok2xx", "timeout"}

BurstSpecInit ==
  /\ perm = NoPerm
  /\ now \in TimeSteps
  /\ CbInit
  /\ ExtInit
  /\ RlInit /\ defaultLimit = 1 /\ enableTenantRateLimits = FALSE

BurstNext ==
  \/ ExecuteUpTo("service-a", MaxBurst)
  \/ \E o \in BurstOutcomes : Settle("service-a", o)
  \/ \E d \in TimeSteps : Advance(d)

SpecBurst == BurstSpecInit /\ [][BurstNext]_vars

\* one breaker whose upstream recovers: it fails only as long as the reset
\* timeout started by a trip still ends within the time modelled
SettleRecovering(u, outcome) ==
  /\ fnThrows(outcome) => now + resetTimeout <= MaxTime
  /\ Settle(u, outcome)

RecoverSpecInit ==
  /\ perm = NoPerm
  /\ now \in TimeSteps
  /\ CbInit
  /\ ExtInit
  /\ RlInit /\ defaultLimit = 1 /\ enableTenantRateLimits = FALSE

RecoverNext ==
  \/ Execute("service-a")
  \/ \E o \in BurstOutcomes : SettleRecovering("service-a", o)
  \/ \E d \in TimeSteps : Advance(d)

\* calls keep arriving, the calls in flight settle, the clock moves
RecoverFairness ==
  /\ WF_vars(Execute("service-a"))
  /\ WF_vars(SettleRecovering("service-a", "ok2xx"))
  /\ WF_vars(\E d \in TimeSteps : Advance(d))

SpecRecover == RecoverSpecInit /\ [][RecoverNext]_vars /\ RecoverFairness

\* the limit and ttl lookups, for every method and resource
LimSpecInit ==
  /\ perm = NoPerm
  /\ now = StartTime
  /\ CbInit
  /\ flt = NoFailure /\ CacheInit /\ srv = Listening
  /\ jwt = JwtIdle /\ LimInit /\ RaceInit
  /\ RlInit /\ enableTenantRateLimits = FALSE

LimNext == ResolveApplied \/ LookUp

SpecLim == LimSpecInit /\ [][LimNext]_vars

\* cached reads of an item racing with writes of it, behind the breaker
RaceSpecInit ==
  /\ perm = NoPerm
  /\ now = StartTime
  /\ CbInit
  /\ ExtInit
  /\ RlInit /\ defaultLimit = 1 /\ enableTenantRateLimits = FALSE

RaceNext ==
  \/ ReadStart
  \/ ReadAdmit
  \/ \E o \in RaceOutcomes : ReadAnswer(o)
  \/ ReadSet
  \/ \E op \in RaceOps : WriteAdmit(op)
  \/ \E o \in RaceOutcomes : WriteAnswer(o)
  \/ WriteInvalidate

SpecRace == RaceSpecInit /\ [][RaceNext]_vars

(***************************************************************************)
(* Circuit breaker properties                                              *)
(***************************************************************************)
\* the breaker the last event was about, as it is now
CbNow == circuits[cbLast.name]

CbCallEvent == cbLast.kind \in {"admitted", "rejected"}
CbSettled == cbLast.kind = "settled"
CbFailed == cbLast.thrown # NoException

\* C1: a CLOSED breaker goes to OPEN exactly when a settled call fails and
\* brings the failures observed since the last success to failureThreshold
\* or more; with fewer it stays CLOSED, no call start moves it, and a success
\* in CLOSED puts the failure count back to 0.
C1_ClosedTripsAtThreshold ==
  /\ (CbSettled /\ cbLast.pre.state = "CLOSED") =>
        /\ (CbNow.state = "OPEN") <=>
              (CbFailed /\ cbLast.preConsec + 1 >= failureThreshold)
        /\ CbNow.state \in {"OPEN", "CLOSED"}
        /\ (~CbFailed) => (CbNow.failureCount = 0 /\ CbNow.state = "CLOSED")
        /\ (CbFailed /\ CbNow.state = "CLOSED") =>
              CbNow.failureCount = cbLast.preConsec + 1
  /\ (CbCallEvent /\ cbLast.pre.state = "CLOSED") => CbNow.state = "CLOSED"

C1_Witness ==
  /\ CbSettled /\ cbLast.pre.state = "CLOSED" /\ CbNow.state = "OPEN"
  /\ cbLast.preConsec = failureThreshold - 1

\* C2: a HALF_OPEN breaker goes back to CLOSED exactly when a settled call
\* succeeds and brings the successes counted since HALF_OPEN was entered to
\* halfOpenAttempts; on closing the failure count, the open-until and the
\* half-open success count are all 0, and calls to a CLOSED breaker are
\* admitted.
C2_HalfOpenClosesAtAttempts ==
  /\ (CbSettled /\ cbLast.pre.state = "HALF_OPEN") =>
        /\ (CbNow.state = "CLOSED") <=>
              (~CbFailed /\ cbLast.preSucc + 1 >= halfOpenAttempts)
        /\ (CbNow.state = "CLOSED") =>
              /\ CbNow.failureCount = 0
              /\ CbNow.nextAttempt = 0
              /\ CbNow.halfOpenSuccesses = 0
  /\ (CbCallEvent /\ cbLast.pre.state = "CLOSED") =>
        (cbLast.kind = "admitted" /\ inFlight[cbLast.name] = cbLast.preInFlight + 1)

C2_Witness ==
  /\ CbSettled /\ cbLast.pre.state = "HALF_OPEN" /\ CbNow.state = "CLOSED"
  /\ cbLast.preSucc = halfOpenAttempts - 1

\* C3: a call that arrives while the breaker is OPEN and now < nextAttempt is
\* rejected with ServiceUnavailableException (503, ERR_SERVICE_UNAVAILABLE),
\* the wrapped function is not started and the breaker is left as it was.
C3_OpenRejects ==
  (CbCallEvent /\ cbLast.pre.state = "OPEN"
     /\ cbLast.preNow < cbLast.pre.nextAttempt) =>
    /\ cbLast.kind = "rejected"
    /\ cbLast.thrown.error = "ServiceUnavailable"
    /\ cbLast.thrown.status = 503
    /\ cbLast.thrown.errorCode = "ERR_SERVICE_UNAVAILABLE"
    /\ inFlight[cbLast.name] = cbLast.preInFlight
    /\ CbNow = cbLast.pre

C3_Witness ==
  /\ cbLast.kind = "rejected" /\ cbLast.pre.state = "OPEN"
  /\ cbLast.preNow < cbLast.pre.nextAttempt

\* C4: a call that arrives while the breaker is OPEN and now >= nextAttempt
\* moves it to HALF_OPEN with the half-open success count at 0 and is then
\* admitted; no call is admitted while the breaker is OPEN.
C4_OpenExpiredProbes ==
  /\ (CbCallEvent /\ cbLast.pre.state = "OPEN"
        /\ cbLast.preNow >= cbLast.pre.nextAttempt) =>
       /\ cbLast.kind = "admitted"
       /\ CbNow.state = "HALF_OPEN"
       /\ CbNow.halfOpenSuccesses = 0
       /\ inFlight[cbLast.name] = cbLast.preInFlight + 1
  /\ (cbLast.kind = "admitted") => CbNow.state # "OPEN"

C4_Witness ==
  /\ cbLast.kind = "admitted" /\ cbLast.pre.state = "OPEN"
  /\ cbLast.pre.halfOpenSuccesses > 0
  /\ CbNow.state = "HALF_OPEN"

\* C5: an upstream HTTP 4xx answer to a wrapped call is not a breaker
\* failure: it leaves the failure count and the breaker state as they were.
C5_Http4xxNotCounted ==
  (CbSettled /\ cbLast.outcome \in {"http404", "http4xx"}) =>
    /\ CbNow.failureCount = cbLast.pre.failureCount
    /\ CbNow.state = cbLast.pre.state

(***************************************************************************)
(* Rate limiter properties                                                 *)
(***************************************************************************)
Min(a, b) == IF a < b THEN a ELSE b

\* the limit checkRateLimit resolves for a counter key
LimitOfKey(k) ==
  resolveLimit(defaultLimit, defaultTtl, k.method, k.resource).limit

\* every request counted under key k is past the guards
Quiescent(k) ==
  \A i \in Slots :
    reqs[i].firstKey = k => reqs[i].st \in {"idle", "handler", "done"}

\* the request in slot i is through with the guards, all its rate-limit
\* checks having fallen in one window
Throttled(i) ==
  /\ reqs[i].st \in {"handler", "done"}
  /\ reqs[i].incs > 0
  /\ reqs[i].key = reqs[i].firstKey

\* C6: with a working KV, of the N requests that fell inside one window of
\* one (identity, method, resource) with limit L, exactly min(N, L) were
\* let through (limited=false) and the others were limited.
C6_ExactlyMinAdmitted ==
  kvFaults = 0 =>
    \A k \in DOMAIN stats :
      (Quiescent(k) /\ ~stats[k].crossed) =>
        stats[k].pass = Min(stats[k].n, LimitOfKey(k))

\* C7: a request to a rate-limited route increments its window counter by
\* exactly 1, so the first request of a window with limit L is answered
\* with X-RateLimit-Remaining: L - 1.
C7_OneIncrementPerRequest ==
  kvFaults = 0 =>
    \A i \in Slots :
      Throttled(i) =>
        /\ reqs[i].incs = 1
        /\ (reqs[i].first => reqs[i].hdr.remaining = reqs[i].limit - 1)

\* C8: every RateLimitResult returned by checkRateLimit, after a Redis reply
\* or after a Redis error, has remaining >= 0 and limited iff current > limit.
C8_DecisionConsistent ==
  rlLast.kind = "result" =>
    /\ rlLast.remaining >= 0
    /\ (rlLast.limited <=> rlLast.current > rlLast.limit)

C8_Witness ==
  /\ rlLast.kind = "result"
  /\ rlLast.limited
  /\ ~rlLast.kvError
  /\ kvFaults > 0

\* C9: when INCRBY or the EXPIRE after it fails, the result is limited=false
\* with remaining = limit, and the guard lets the request go on: no
\* exception reaches the client.
C9_FailOpen ==
  (rlLast.kind = "result" /\ rlLast.kvError) =>
    /\ ~rlLast.limited
    /\ rlLast.remaining = rlLast.limit
    /\ rlLast.passed
    /\ reqs[rlLast.slot].st # "done"

C9_Witness ==
  /\ rlLast.kind = "result"
  /\ rlLast.kvError
  /\ rlLast.preValue = 1
  /\ rlLast.passed

\* a response has been written for slot i on a route the limiter does not
\* skip
AnsweredThrottledRoute(i) ==
  /\ reqs[i].st = "done"
  /\ ~throttleSkipped(RouteTable[reqs[i].route])

\* the request of slot i was answered before any regular checkRateLimit
\* call returned: by ApiKeyAuthGuard, JwtAuthGuard or RolesGuard, or by the
\* tenant-level check of the global ThrottlerGuard
AnsweredBeforeLimiter(i) ==
  \/ reqs[i].by \in {"ApiKey", "Jwt", "Roles"}
  \/ (reqs[i].by = "TenantThrottler" /\ reqs[i].pc <= Len(GlobalGuards))

TenantBlockedSeen ==
  \E i \in Slots : AnsweredThrottledRoute(i) /\ reqs[i].by = "TenantThrottler"

UpstreamFailureSeen ==
  \E i \in Slots :
    AnsweredThrottledRoute(i) /\ reqs[i].by = "handler" /\ reqs[i].status = 503

ForbiddenSeen ==
  \E i \in Slots : AnsweredThrottledRoute(i) /\ reqs[i].status = 403

(***************************************************************************)
(* Error envelope and correlation id properties                            *)
(***************************************************************************)
\* C11: a request blocked by the rate limiter is answered with 429 and an
\* envelope with error "TooManyRequests" and errorCode
\* "ERR_RATE_LIMIT_EXCEEDED".
C11_RateLimitEnvelope ==
  \A i \in Slots :
    (reqs[i].st = "done" /\ reqs[i].by \in {"Throttler", "TenantThrottler"}) =>
      /\ reqs[i].status = 429
      /\ reqs[i].error = "TooManyRequests"
      /\ reqs[i].errorCode = "ERR_RATE_LIMIT_EXCEEDED"

\* C12: the x-request-id sent on an upstream call equals the correlation id
\* of the request being served.
C12_RequestIdForwarded ==
  \A i \in Slots :
    reqs[i].outRequestId # NoId => reqs[i].outRequestId = reqs[i].requestId

\* an error envelope has been written for slot i
EnvelopeWritten(i) == reqs[i].st = "done" /\ reqs[i].status >= 400

\* C13: from ingress on every request carries a correlation id, the
\* client's X-Request-Id when one was sent and a generated one otherwise,
\* and every error envelope written for the request has that requestId.
C13_CorrelationId ==
  \A i \in Slots :
    reqs[i].st # "idle" =>
      /\ reqs[i].requestId # NoId
      /\ (Headers[reqs[i].client].requestId # "" =>
            reqs[i].requestId =
              [kind |-> "client", val |-> Headers[reqs[i].client].requestId,
               t |-> 0])
      /\ (Headers[reqs[i].client].requestId = "" =>
            reqs[i].requestId.kind = "uuid")
      /\ (EnvelopeWritten(i) => reqs[i].envRequestId = reqs[i].requestId)

C13_Witness ==
  \E i \in Slots :
    /\ EnvelopeWritten(i)
    /\ reqs[i].requestId.kind = "client"
    /\ reqs[i].envRequestId = reqs[i].requestId

GeneratedIdEnvelopeSeen ==
  \E i \in Slots :
    /\ EnvelopeWritten(i)
    /\ reqs[i].requestId.kind = "uuid"
    /\ reqs[i].envRequestId = reqs[i].requestId

(***************************************************************************)
(* Guard chain properties                                                  *)
(***************************************************************************)
AuthGuards == {"ApiKey", "Jwt", "Roles"}

\* the guards that have returned true for the request of slot i while it is
\* in the guard chain or was answered from it
PassedGuards(i) ==
  {Chain(reqs[i])[j] : j \in 1..(reqs[i].pc - 1)}

\* slot i was answered by a guard, not by the handler
RejectedBy(i, stages) == reqs[i].st = "done" /\ reqs[i].by \in stages

\* C14: on a non-public route authentication and authorization come before
\* the rate limiter and the limiter before the handler: a Redis counter is
\* touched only after the three auth guards passed, a request rejected by
\* them has incremented no counter, and a request rejected by them or by the
\* limiter has made no upstream call.
C14_StageOrder ==
  \A i \in Slots :
    ~RouteTable[reqs[i].route].isPublic =>
      /\ (reqs[i].st \in {"incr", "expire"} => AuthGuards \subseteq PassedGuards(i))
      /\ (RejectedBy(i, AuthGuards) =>
            /\ reqs[i].phase = ""
            /\ reqs[i].incs = 0
            /\ reqs[i].outRequestId = NoId)
      /\ (RejectedBy(i, {"Throttler", "TenantThrottler"}) =>
            reqs[i].outRequestId = NoId)

C14_Witness ==
  \E i \in Slots :
    /\ RejectedBy(i, {"Throttler"})
    /\ RouteTable[reqs[i].route].upstream # ""
    /\ reqs[i].outRequestId = NoId

AuthRejectedSeen ==
  \E i \in Slots :
    /\ RejectedBy(i, AuthGuards)
    /\ ~throttleSkipped(RouteTable[reqs[i].route])
    /\ kv # <<>>

\* slot i holds a request that is in progress or answered
Present(i) == reqs[i].st # "idle"

\* no rate-limit check was started for the request of slot i
NeverLimited(i) == reqs[i].phase = "" /\ reqs[i].incs = 0 /\ ~reqs[i].hdr.set

\* no guard rejects the request of slot i and no principal is attached
NeverAuthenticated(i) ==
  /\ ~reqs[i].user.set
  /\ (reqs[i].st = "done" => (reqs[i].by = "handler" /\ reqs[i].status < 400))

\* the route of slot i is public, skipThrottle or a health endpoint
BypassRoute(i) ==
  \/ RouteTable[reqs[i].route].isPublic
  \/ RouteTable[reqs[i].route].skipThrottle
  \/ RouteTable[reqs[i].route].path \in {"/health", "/api/health"}

SkipThrottleServedSeen ==
  \E i \in Slots :
    /\ reqs[i].st = "done"
    /\ reqs[i].route = "categories"
    /\ reqs[i].by = "handler"
    /\ kv # <<>>

(***************************************************************************)
(* Authentication properties                                               *)
(***************************************************************************)
\* the request of slot i is on a route the auth guards do not wave through
AuthRequired(i) ==
  /\ Present(i)
  /\ ~RouteTable[reqs[i].route].isPublic
  /\ ~IsHealthPath(RouteTable[reqs[i].route].path)

\* the request of slot i gets no further than the first guard, which
\* answers 401, and no principal is attached
StoppedAtAuthN(i) ==
  /\ reqs[i].st \in {"guard", "done"}
  /\ reqs[i].pc = 1
  /\ (reqs[i].st = "done" => (reqs[i].status = 401 /\ reqs[i].by = "ApiKey"))
  /\ ~reqs[i].user.set
  /\ ~reqs[i].introspected

\* the request of slot i is past the first guard
PastFirstGuard(i) ==
  reqs[i].st \in {"incr", "expire", "handler"}
    \/ (reqs[i].st \in {"guard", "done"} /\ reqs[i].pc > 1)

\* C16: on a non-public, non-health route one authentication mode is used:
\* with X-Api-Key present only the allow-list decides (a key not in the list
\* is Unauthorized even with an Authorization header, a key in the list
\* authenticates without introspection); the token is introspected only
\* when Authorization is present and X-Api-Key absent; with neither header
\* the request is Unauthorized.
C16_SingleAuthMode ==
  \A i \in Slots :
    AuthRequired(i) =>
      LET h == Headers[reqs[i].client]
      IN /\ (h.apiKey # "" /\ h.apiKey \notin apiKeys) => StoppedAtAuthN(i)
         /\ (h.apiKey # "" /\ h.apiKey \in apiKeys) =>
              /\ ~reqs[i].introspected
              /\ reqs[i].status # 401
              /\ (PastFirstGuard(i) => reqs[i].user.set)
         /\ reqs[i].introspected => (h.authorization # "" /\ h.apiKey = "")
         /\ (h.apiKey = "" /\ h.authorization = "") => StoppedAtAuthN(i)

C16_Witness ==
  \E i \in Slots :
    /\ AuthRequired(i)
    /\ reqs[i].client = "badKeyBearer"
    /\ reqs[i].st = "done"
    /\ reqs[i].status = 401

KeyWithBadBearerServedSeen ==
  \E i \in Slots :
    /\ AuthRequired(i)
    /\ reqs[i].client = "keyBearer"
    /\ reqs[i].st = "done"
    /\ reqs[i].by = "handler"
    /\ reqs[i].status = 200

IntrospectedSeen ==
  \E i \in Slots : AuthRequired(i) /\ reqs[i].introspected /\ reqs[i].user.set

\* the bearer-mode request of slot i cannot be authenticated: no tenant
\* header, a failed introspection, or no userAccess entry for the tenant
BearerModeFails(i) ==
  LET h == Headers[reqs[i].client]
  IN /\ h.apiKey = ""
     /\ h.authorization # ""
     /\ \/ h.tenantid = ""
        \/ ~Introspect(h.authorization).ok
        \/ \A a \in Introspect(h.authorization).userAccess :
             a.tenantId # h.tenantid

\* C17: in bearer mode a request without tenant header, with a token whose
\* userAccess has no entry for the requested tenant, or whose introspection
\* fails is answered 401, never 403, and no principal is attached.
C17_BearerFailureIsUnauthorized ==
  \A i \in Slots :
    (AuthRequired(i) /\ BearerModeFails(i)) =>
      /\ reqs[i].st \in {"guard", "done"}
      /\ reqs[i].pc <= 2
      /\ ~reqs[i].user.set
      /\ (reqs[i].st = "done" =>
            (reqs[i].status = 401 /\ reqs[i].by = "Jwt"
             /\ reqs[i].error = "Unauthorized"))

C17_Witness ==
  \E i \in Slots :
    /\ AuthRequired(i)
    /\ reqs[i].client = "bearerOtherTenant"
    /\ reqs[i].st = "done"
    /\ reqs[i].status = 401
    /\ reqs[i].introspected

BearerNoTenantSeen ==
  \E i \in Slots :
    /\ AuthRequired(i)
    /\ reqs[i].client = "bearerNoTenant"
    /\ reqs[i].st = "done"
    /\ reqs[i].status = 401
    /\ ~reqs[i].introspected

BearerBadTokenSeen ==
  \E i \in Slots :
    /\ AuthRequired(i)
    /\ reqs[i].client = "bearerBad"
    /\ reqs[i].st = "done"
    /\ reqs[i].status = 401

(***************************************************************************)
(* Authorization properties                                                *)
(***************************************************************************)
\* the principal of slot i holds one of the roles the route requires
RoleMatch(i) ==
  RouteTable[reqs[i].route].roles \cap reqs[i].user.roles # {}

\* authorization has let the request of slot i through: the global
\* RolesGuard returned true
AuthzAllowed(i) ==
  \/ reqs[i].st = "handler"
  \/ (reqs[i].st = "done" /\ reqs[i].by = "handler")
  \/ "Roles" \in PassedGuards(i)

\* C18: an authenticated principal holding one of the roles a route
\* requires is allowed by authorization, whatever the route's resource and
\* action are: it is never answered 403.
C18_RoleMatchAllows ==
  \A i \in Slots :
    (AuthRequired(i) /\ reqs[i].user.set /\ RoleMatch(i)) =>
      ~(reqs[i].st = "done" /\ reqs[i].status = 403)

\* C19: a request that authorization lets through without a required-role
\* match (the route declaring no roles included) is on a route that
\* declares both a resource and an action.
C19_NoRoleMatchNeedsResourceAction ==
  \A i \in Slots :
    (AuthRequired(i) /\ AuthzAllowed(i) /\ ~RoleMatch(i)) =>
      /\ RouteTable[reqs[i].route].resource # ""
      /\ RouteTable[reqs[i].route].action # ""

RolesGuardRejectsSeen ==
  \E i \in Slots :
    AuthRequired(i) /\ reqs[i].st = "done" /\ reqs[i].by = "Roles"
      /\ reqs[i].status = 403

\* C20: validatePermissions allows unconditionally when the roles contain
\* admin; otherwise it allows iff the permission map has the (resource,
\* action) pair and its roles intersect the principal's: an unknown
\* resource, an unknown action of a known resource and an empty role set
\* are denied.
C20_ValidatePermissions ==
  perm.kind = "call" =>
    /\ ("admin" \in perm.roles => perm.result)
    /\ ("admin" \notin perm.roles =>
          (perm.result <=>
             /\ perm.resource \in DOMAIN permissionMap
             /\ perm.action \in DOMAIN permissionMap[perm.resource]
             /\ perm.roles \cap permissionMap[perm.resource][perm.action] # {}))
    /\ (perm.roles = {} => ~perm.result)
    /\ (("admin" \notin perm.roles
         /\ perm.resource \notin {"user", "product", "order", "report"}) =>
          ~perm.result)
    /\ (("admin" \notin perm.roles
         /\ perm.action \notin {"create", "read", "update", "delete"}) =>
          ~perm.result)

C20_Witness ==
  /\ perm.kind = "call"
  /\ "admin" \in perm.roles
  /\ perm.resource = "item"
  /\ perm.action = "approve"
  /\ perm.result

UserReadAllowedSeen ==
  /\ perm.kind = "call"
  /\ perm.roles = {"user"}
  /\ perm.resource = "report"
  /\ perm.action = "read"
  /\ perm.result

(***************************************************************************)
(* Exception filter properties                                             *)
(***************************************************************************)
\* the filter has written the response for the failure
Written == flt.st = "written"

\* the upstream answered 4xx/5xx other than 404 with a JSON error envelope
UpstreamEnvelope ==
  /\ flt.origin = "upstream"
  /\ flt.cause.response.present
  /\ flt.cause.response.status >= 400
  /\ flt.cause.response.status # 404
  /\ flt.cause.response.data.present
  /\ flt.cause.response.data.error # ""
  /\ flt.cause.response.data.message # ""

\* C26: for every upstream, an upstream 4xx/5xx answer other than 404 whose
\* body is a JSON error envelope reaches the client with the upstream's
\* status and the upstream's error and message unchanged.
C26_UpstreamEnvelopePassThrough ==
  (Written /\ UpstreamEnvelope) =>
    /\ flt.status = flt.cause.response.status
    /\ flt.error = flt.cause.response.data.error
    /\ flt.message = flt.cause.response.data.message

\* service-a relays the status, error and message of a 409 envelope
ServiceAConflictRelayedSeen ==
  /\ Written /\ UpstreamEnvelope
  /\ flt.service = "service-a"
  /\ flt.status = 409 /\ flt.error = "Conflict"
  /\ flt.message = "Item already exists"

\* service-b answers 500 InternalServerError for a 409 envelope
ServiceBConflictLostSeen ==
  /\ Written /\ UpstreamEnvelope
  /\ flt.service = "service-b"
  /\ flt.cause.response.status = 409
  /\ flt.status = 500 /\ flt.error = "InternalServerError"

\* the failure is one of the kinds the filter maps to a status of its own:
\* an HttpException (typed gateway exceptions, validation failures,
\* payload-size errors), or an error with a timeout or connection code
MappedKind ==
  \/ flt.thrown.class \in {"BaseException", "HttpException"}
  \/ flt.thrown.code \in {"ETIMEDOUT", "ECONNABORTED", "ECONNREFUSED", "ENOTFOUND"}

\* C27: a failure that is not a typed gateway exception, a validation
\* failure, a timeout or connection transport error or a payload-size error
\* is answered with status 500 and error InternalServerError.
C27_EverythingElseInternalServerError ==
  (Written /\ ~MappedKind) =>
    /\ flt.status = 500
    /\ flt.error = "InternalServerError"

\* a connection reset on a service-b call is answered 500 UnexpectedError
ResetAnsweredUnexpectedSeen ==
  /\ Written
  /\ flt.service = "service-b"
  /\ flt.cause.code = "ECONNRESET"
  /\ flt.status = 500 /\ flt.error = "UnexpectedError"

\* C28: an upload larger than the 10 MiB limit is answered 413 with error
\* PayloadTooLarge and errorCode ERR_FILE_TOO_LARGE, and the errorCode of a
\* typed exception reaches the client unchanged.
C28_FileTooLarge ==
  /\ (Written /\ flt.origin = "upload" /\ flt.size > maxSize) =>
       /\ flt.status = 413
       /\ flt.error = "PayloadTooLarge"
       /\ flt.errorCode = "ERR_FILE_TOO_LARGE"
  /\ (Written /\ flt.thrown.class = "BaseException") =>
       flt.errorCode = flt.thrown.errorCode

\* an oversized upload is answered 413 with ERR_PAYLOAD_TOO_LARGE
OversizeAnsweredSeen ==
  /\ Written /\ flt.origin = "upload" /\ flt.size > maxSize
  /\ flt.status = 413 /\ flt.errorCode = "ERR_PAYLOAD_TOO_LARGE"

\* the errorCode of FileTooLargeException is replaced on the way out
TypedCodeReplacedSeen ==
  /\ Written /\ flt.thrown = FileTooLargeException
  /\ flt.errorCode = "ERR_PAYLOAD_TOO_LARGE"

(***************************************************************************)
(* Response envelope properties                                            *)
(***************************************************************************)
\* the errorCode values of the exception classes and of the filter
ErrorCodes ==
  {"ERR_SERVICE_UNAVAILABLE", "ERR_GATEWAY_TIMEOUT", "ERR_RATE_LIMIT_EXCEEDED",
   "ERR_VALIDATION_FAILED", "ERR_INVALID_FILE", "ERR_INVALID_CONTENT",
   "ERR_INVALID_FILENAME", "ERR_FILE_TOO_LARGE", "ERR_PAYLOAD_TOO_LARGE",
   "ERR_AUTHENTICATION_FAILED", "ERR_INSUFFICIENT_PERMISSIONS",
   "ERR_RESOURCE_NOT_FOUND", "ERR_RESOURCE_LIMIT_EXCEEDED",
   "ERR_RESOURCE_CONFLICT"}

\* C21: every response with status >= 400 carries an errorCode of the fixed
\* taxonomy and never carries success: true.
C21_ErrorCodeOnEveryFailure ==
  \A i \in Slots :
    (reqs[i].st = "done" /\ reqs[i].status >= 400) =>
      /\ "errorCode" \in reqs[i].body.keys
      /\ reqs[i].errorCode \in ErrorCodes
      /\ reqs[i].body.success # "true"

\* a request without credentials is answered 401 without an errorCode
UnauthorizedWithoutCodeSeen ==
  \E i \in Slots :
    /\ reqs[i].st = "done" /\ reqs[i].status = 401
    /\ reqs[i].by \in {"ApiKey", "Jwt"}
    /\ "errorCode" \notin reqs[i].body.keys

\* an upstream failure is answered with an errorCode of the taxonomy
FailureWithCodeSeen ==
  \E i \in Slots :
    /\ reqs[i].st = "done" /\ reqs[i].status = 503
    /\ reqs[i].errorCode = "ERR_SERVICE_UNAVAILABLE"
    /\ "errorCode" \in reqs[i].body.keys

\* { success: true, data, metadata? }
SuccessEnvelope(b) ==
  /\ b.success = "true"
  /\ {"success", "data"} \subseteq b.keys
  /\ b.keys \subseteq {"success", "data", "metadata"}

\* { error, message, timestamp, path, errorCode?, validationErrors?, requestId? }
ErrorEnvelope(b) ==
  /\ {"error", "message", "timestamp", "path"} \subseteq b.keys
  /\ b.keys \subseteq {"error", "message", "timestamp", "path", "errorCode",
                       "validationErrors", "requestId"}

\* C22: every request gets exactly one response, and its body is a
\* SuccessEnvelope or an ErrorEnvelope, on the health endpoints and on the
\* service routes alike.
C22_OneEnvelopePerRequest ==
  \A i \in Slots :
    /\ reqs[i].responses <= 1
    /\ reqs[i].st = "done" =>
         /\ reqs[i].responses = 1
         /\ SuccessEnvelope(reqs[i].body) \/ ErrorEnvelope(reqs[i].body)

\* GET /health is answered 200 with { status, service, timestamp }
HealthBodySeen ==
  \E i \in Slots :
    /\ reqs[i].st = "done" /\ reqs[i].route = "health"
    /\ reqs[i].status = 200
    /\ reqs[i].body = healthBody

\* a service route is answered with a SuccessEnvelope
ServiceEnvelopeSeen ==
  \E i \in Slots :
    /\ reqs[i].st = "done" /\ reqs[i].route = "upload"
    /\ reqs[i].status = 200
    /\ SuccessEnvelope(reqs[i].body)

(***************************************************************************)
(* Cache properties                                                        *)
(***************************************************************************)
\* a cached read has just been served
ReadServed == cacheLast.kind = "get"

\* a write has just run
WriteRan == cacheLast.kind \in {"create", "update", "delete"}

\* C23: with a working KV, a read of a resource that follows a read of the
\* same resource by the same tenant, within the TTL and with no invalidation
\* in between, returns the same body and makes no upstream call of its own:
\* the only upstream call of the two is the one that filled the cache.
C23_SecondReadFromCache ==
  (ReadServed /\ cacheLast.prev.valid /\ cacheLast.getOk /\ cacheLast.setOk) =>
    /\ cacheLast.threw = "none"
    /\ cacheLast.value = cacheLast.prev.value
    /\ ~cacheLast.ranFactory

\* the first read filled the cache, time passed, a write left the key alone,
\* and the second read is served from the cache
C23_Witness ==
  /\ ReadServed /\ cacheLast.prev.valid /\ cacheLast.prev.ranFactory
  /\ cacheLast.getOk /\ cacheLast.setOk
  /\ cacheLast.res = "categories"
  /\ now > StartTime
  /\ upVer["t1"] > 0
  /\ ~cacheLast.ranFactory
  /\ cacheLast.value = upstreamRead("t1", "categories", 0)

DeleteFaultSwallowedSeen ==
  /\ cacheLast.kind = "delete" /\ ~cacheLast.delOk /\ cacheLast.upOk
  /\ cacheLast.threw = "none"
  /\ cacheKv # <<>>

\* C25: after a successful write to a service-a item the tenant's cache keys
\* are gone: the item key after update and delete, the categories and
\* statistics keys after every write.
C25_WriteInvalidates ==
  (WriteRan /\ cacheLast.upOk /\ cacheLast.delOk) =>
    /\ cacheLast.kind \in {"update", "delete"} =>
         <<"service-a", cacheLast.tenantId, "item", ItemId>> \notin DOMAIN cacheKv
    /\ <<"service-a", cacheLast.tenantId, "categories">> \notin DOMAIN cacheKv
    /\ <<"service-a", cacheLast.tenantId, "statistics">> \notin DOMAIN cacheKv

\* createItem leaves the tenant's statistics in the cache
CreateLeavesStatisticsSeen ==
  /\ cacheLast.kind = "create" /\ cacheLast.upOk /\ cacheLast.delOk
  /\ <<"service-a", "t1", "statistics">> \in DOMAIN cacheKv

\* updateItem without a category leaves the tenant's categories in the cache
UpdateLeavesCategoriesSeen ==
  /\ cacheLast.kind = "update" /\ cacheLast.upOk /\ cacheLast.delOk
  /\ ~cacheLast.category
  /\ <<"service-a", "t1", "categories">> \in DOMAIN cacheKv

(***************************************************************************)
(* Circuit breaker: failure while HALF_OPEN                                *)
(***************************************************************************)
\* a call to a HALF_OPEN breaker has just failed
HalfOpenFailed == CbSettled /\ cbLast.pre.state = "HALF_OPEN" /\ CbFailed

\* C30 as stated: a failure in HALF_OPEN trips the breaker back to OPEN and
\* leaves the open-until value unchanged.
C30_HalfOpenFailureKeepsOpenUntil ==
  HalfOpenFailed =>
    /\ CbNow.state = "OPEN"
    /\ CbNow.nextAttempt = cbLast.pre.nextAttempt

\* C30: a failure in HALF_OPEN trips the breaker back to OPEN with the
\* open-until set anew to the time of the failure plus resetTimeout, which is
\* later than the old one; the failure count and the half-open success count
\* are left as they were.
C30_HalfOpenFailureRearms ==
  HalfOpenFailed =>
    /\ CbNow.state = "OPEN"
    /\ CbNow.nextAttempt = cbLast.preNow + resetTimeout
    /\ CbNow.nextAttempt > cbLast.pre.nextAttempt
    /\ CbNow.failureCount = cbLast.pre.failureCount
    /\ CbNow.halfOpenSuccesses = cbLast.pre.halfOpenSuccesses

C30_Witness ==
  /\ HalfOpenFailed
  /\ CbNow.state = "OPEN"
  /\ cbLast.pre.nextAttempt > 0
  /\ CbNow.nextAttempt = cbLast.preNow + resetTimeout
  /\ CbNow.nextAttempt # cbLast.pre.nextAttempt

(***************************************************************************)
(* Shutdown properties                                                     *)
(***************************************************************************)
\* C29: on SIGTERM or SIGINT the process stops accepting, waits for the
\* requests in flight, closes the KV client and exits, in this order: the KV
\* client is never closed while the HTTP server still accepts or serves.
C29_KvClosedLast ==
  /\ srv.redis = "closed" => (~srv.listening /\ srv.serving = 0)
  /\ srv.exited => (srv.redis = "closed" /\ ~srv.listening /\ srv.serving = 0)

\* the Redis client is closed while the server accepts and serves a request
KvClosedWhileServingSeen ==
  /\ srv.redis = "closed" /\ srv.listening /\ srv.serving > 0
  /\ ~srv.exited

\* the process exits with code 0 after the requests in flight are answered
CleanExitSeen ==
  /\ srv.exited /\ srv.exitCode = 0
  /\ srv.redis = "closed" /\ ~srv.listening /\ srv.serving = 0

\* a second signal ends the process with requests in flight
SecondSignalExitSeen ==
  /\ srv.exited /\ srv.exitCode = 1 /\ srv.serving > 0

(***************************************************************************)
(* Expiry of the rate-limit window keys                                    *)
(***************************************************************************)

\* a request whose INCRBY on key k returned 1 and whose EXPIRE is still to
\* be executed
ExpirePending(k) ==
  {i \in Slots : reqs[i].st = "expire" /\ reqs[i].key = k}

\* the key is in Redis without an expiry and nobody is about to set one
ExpiryNeverSet(k) ==
  k \in DOMAIN kv /\ kv[k].expireAt = 0 /\ ExpirePending(k) = {}

LaterIncrementKeptExpirySeen ==
  \E k \in DOMAIN kv :
    kv[k].value >= 2 /\ kv[k].expireAt = StartTime + defaultTtl * 1000

\* the EXPIRE of the first increment was rejected: the key stays without
\* an expiry
ExpiryLostSeen ==
  \E k \in DOMAIN kv : ExpiryNeverSet(k) /\ kv[k].value >= 1

(***************************************************************************)
(* Bearer-mode principal properties                                        *)
(***************************************************************************)

JwtPassed == jwt.st \in {"authenticated", "handled"}

\* the userAccess entries of the answer for the tenant of the tenantid header
MatchingAccess ==
  {a \in jwt.answer.userAccess : a.tenantId = jwt.headers.tenantid}

\* C32: in bearer mode the principal's roles are exactly {admin} when the
\* userAccess entry matching the requested tenant has type ADMIN and exactly
\* {user} otherwise, whatever roles field the introspection answer contains.
C32_RolesFromAccessType ==
  JwtPassed =>
    /\ MatchingAccess # {}
    /\ jwt.user.roles = IF \E a \in MatchingAccess : a.type = "ADMIN"
                        THEN {"admin"} ELSE {"user"}

\* the answer itself says roles ['admin'], the entry for the tenant is USER
C32_Witness ==
  /\ JwtPassed
  /\ "roles" \in DOMAIN jwt.answer
  /\ jwt.answer.roles = {"admin"}
  /\ \A a \in MatchingAccess : a.type = "USER"
  /\ jwt.user.roles = {"user"}

AdminByAccessTypeSeen ==
  /\ JwtPassed
  /\ "roles" \in DOMAIN jwt.answer
  /\ jwt.answer.roles = {}
  /\ jwt.user.roles = {"admin"}

\* C33: in bearer mode the principal's tenantId, the value the handlers get
\* for upstream calls and cache keys, equals the tenant id of the request's
\* tenantid header, whatever other fields the introspection answer contains.
C33_TenantIdFromHeader ==
  JwtPassed =>
    /\ jwt.user.tenantId = jwt.headers.tenantid
    /\ (jwt.st = "handled" => jwt.tenantIdArg = jwt.headers.tenantid)

\* the answer carries tenantId t2, the request asked for t1 and the user has
\* no access entry for t2: the handler runs for t2
ForeignTenantSeen ==
  /\ jwt.st = "handled"
  /\ jwt.headers.tenantid = "t1"
  /\ jwt.tenantIdArg = "t2"
  /\ \A a \in jwt.answer.userAccess : a.tenantId # "t2"

\* the answer carries an empty tenantId: the handler runs for the tenant of
\* the x-tenant-id header, which no guard has looked at
UncheckedHeaderTenantSeen ==
  /\ jwt.st = "handled"
  /\ jwt.headers.tenantid = "t1"
  /\ jwt.tenantIdArg = "t3"

\* without tenantId in the answer the header's tenant is the principal's
HeaderTenantSeen ==
  /\ jwt.st = "handled"
  /\ "tenantId" \notin DOMAIN jwt.answer
  /\ jwt.tenantIdArg = jwt.headers.tenantid

(***************************************************************************)
(* Circuit breaker: late completions, field invariants                     *)
(***************************************************************************)

\* a call admitted earlier has just completed while the breaker was OPEN
SettledInOpen == cbLast.kind = "settled" /\ cbLast.pre.state = "OPEN"

\* C34: while the breaker is Open, the completion (success or failure) of a
\* call admitted before it opened changes neither the state, the failure
\* count, the open-until time nor the half-open success count.
C34_LateCompletionFrame ==
  SettledInOpen =>
    LET b == circuits[cbLast.name]
    IN /\ b.state = "OPEN"
       /\ b.failureCount = cbLast.pre.failureCount
       /\ b.nextAttempt = cbLast.pre.nextAttempt
       /\ b.halfOpenSuccesses = cbLast.pre.halfOpenSuccesses

\* a late failure arrived after the clock had moved on from the trip
C34_Witness ==
  /\ SettledInOpen
  /\ cbLast.thrown # NoException
  /\ cbLast.preNow + resetTimeout > cbLast.pre.nextAttempt

LateSuccessInOpenSeen ==
  SettledInOpen /\ cbLast.thrown = NoException

\* C35: Closed implies 0 <= failureCount < failureThreshold and open-until
\* = 0; HalfOpen implies 0 <= halfOpenSuccesses < halfOpenAttempts; Open
\* implies open-until > 0.
C35_FieldInvariants ==
  \A u \in DOMAIN circuits :
    LET b == circuits[u]
    IN /\ b.state = "CLOSED" =>
            /\ 0 <= b.failureCount /\ b.failureCount < failureThreshold
            /\ b.nextAttempt = 0
       /\ b.state = "HALF_OPEN" =>
            0 <= b.halfOpenSuccesses /\ b.halfOpenSuccesses < halfOpenAttempts
       /\ b.state = "OPEN" => b.nextAttempt > 0

\* a breaker that has been Open and HalfOpen is Closed again and counts
\* failures anew
C35_Witness ==
  \E u \in DOMAIN circuits :
    /\ circuits[u].state = "CLOSED"
    /\ circuits[u].failureCount = failureThreshold - 1
    /\ succSinceHalfOpen[u] = halfOpenAttempts

HalfOpenCountingSeen ==
  \E u \in DOMAIN circuits :
    /\ circuits[u].state = "HALF_OPEN"
    /\ circuits[u].halfOpenSuccesses = halfOpenAttempts - 1

OpenAfterHalfOpenSeen ==
  \E u \in DOMAIN circuits :
    /\ circuits[u].state = "OPEN"
    /\ circuits[u].halfOpenSuccesses > 0

(***************************************************************************)
(* Circuit breaker: admission in HalfOpen, recovery                        *)
(***************************************************************************)

\* a call has just arrived and found the breaker HALF_OPEN, or OPEN with the
\* reset timeout over
ArrivedAtHalfOpen ==
  /\ cbLast.kind \in {"admitted", "rejected"}
  /\ \/ cbLast.pre.state = "HALF_OPEN"
     \/ cbLast.pre.state = "OPEN" /\ cbLast.preNow >= cbLast.pre.nextAttempt

\* C36: while the breaker is HalfOpen every arriving call is admitted, the
\* number of calls in flight is not bounded by halfOpenAttempts, and calls
\* that arrive together once the reset timeout is over are all admitted.
C36_HalfOpenAdmitsAll ==
  ArrivedAtHalfOpen =>
    /\ cbLast.kind = "admitted"
    /\ inFlight[cbLast.name] = cbLast.preInFlight + 1
    /\ circuits[cbLast.name].state = "HALF_OPEN"

\* more probes in flight than halfOpenAttempts, the last one admitted in
\* HALF_OPEN while the others were still awaiting the upstream
C36_Witness ==
  /\ cbLast.kind = "admitted"
  /\ cbLast.pre.state = "HALF_OPEN"
  /\ circuits[cbLast.name].state = "HALF_OPEN"
  /\ inFlight[cbLast.name] > halfOpenAttempts

\* two calls at the same instant after the reset timeout: the first turned
\* the breaker HALF_OPEN, the second was admitted behind it
BothAdmittedSeen ==
  /\ cbLast.kind = "admitted"
  /\ cbLast.pre.state = "HALF_OPEN"
  /\ cbLast.pre.halfOpenSuccesses = 0
  /\ cbLast.preInFlight >= 1
  /\ cbLast.preNow = cbLast.pre.nextAttempt

IsOpen(u) == u \in DOMAIN circuits /\ circuits[u].state = "OPEN"

IsClosed(u) == u \in DOMAIN circuits /\ circuits[u].state = "CLOSED"

\* C40: if the breaker is Open and from some point on calls keep arriving,
\* time advances and every admitted upstream call succeeds, the breaker
\* eventually returns to Closed and stays Closed.
C40_OpenEventuallyClosed ==
  [](IsOpen("service-a") => <>[]IsClosed("service-a"))

\* the breaker was tripped, the upstream has recovered for good and the
\* breaker is CLOSED after its half-open successes
C40_Witness ==
  /\ IsClosed("service-a")
  /\ succSinceHalfOpen["service-a"] = halfOpenAttempts
  /\ now + resetTimeout > MaxTime
  /\ cbLast.kind = "settled"
  /\ cbLast.pre.state = "HALF_OPEN"

(***************************************************************************)
(* Cached reads racing with writes, and the breaker                        *)
(***************************************************************************)

\* the version of the item the cache entry was fetched at
CachedVersion == JSONparse(cacheKv[RaceKey].val).data[3]

\* C37: for every interleaving of a cached GET of an item (cache miss,
\* upstream fetch in flight) with a successful update or delete of the same
\* item, once both have completed the cache does not hold the body that was
\* fetched before the write.
C37_NoStaleEntryAfterRace ==
  (rd.pc = "idle" /\ wr.pc = "idle" /\ RaceKey \in DOMAIN cacheKv) =>
    CachedVersion = upVer[RaceTenant]

\* the read fetched the item, the write changed it and deleted the key, the
\* read then stored what it had fetched
StaleEntrySeen ==
  /\ rd.pc = "idle" /\ rd.last = "filled"
  /\ wr.pc = "idle"
  /\ RaceKey \in DOMAIN cacheKv
  /\ CachedVersion < upVer[RaceTenant]

\* without a write in between the entry is the item as it is
FreshEntrySeen ==
  /\ rd.pc = "idle" /\ rd.last = "filled"
  /\ wr.pc = "idle"
  /\ RaceKey \in DOMAIN cacheKv
  /\ upVer[RaceTenant] > 0
  /\ CachedVersion = upVer[RaceTenant]

\* C38: a cached GET that hits is answered without consulting the breaker
\* and without an upstream call, also while the breaker is Open; a cached
\* GET that misses and whose upstream call fails or is rejected by the
\* breaker writes nothing to the cache.
C38_HitSkipsBreakerMissFailureWritesNothing ==
  /\ [](rd.threw => RaceKey \notin DOMAIN cacheKv)
  /\ [][(rd.pc = "idle" /\ RaceKey \in DOMAIN cacheKv /\ rd' # rd) =>
          /\ rd'.pc = "idle"
          /\ rd'.last = "hit"
          /\ rd'.body = JSONparse(cacheKv[RaceKey].val)
          /\ circuits' = circuits
          /\ upVer' = upVer
          /\ cacheKv' = cacheKv]_vars

\* a hit while the breaker is OPEN
C38_Witness ==
  /\ rd.pc = "idle" /\ rd.last = "hit"
  /\ IsOpen("service-a")
  /\ RaceKey \in DOMAIN cacheKv

MissRejectedSeen ==
  /\ rd.pc = "idle" /\ rd.last = "rejected" /\ rd.threw
  /\ IsOpen("service-a")

MissFailedSeen ==
  rd.pc = "idle" /\ rd.last = "failed" /\ rd.threw

\* C39: for every (method, resource) the (limit, window) checkRateLimit
\* applies equals (getLimit(method, resource), getTtl(method, resource)),
\* both resolved in the order (method, resource), (method), default.
C39_AppliedEqualsLookedUp ==
  lim.st = "looked" => lim.applied = lim.looked

\* POST on the resource sync: window of defaultTtl applied, 2 * defaultTtl
\* looked up
SyncWindowDiffersSeen ==
  /\ lim.st = "looked"
  /\ lim.method = "POST" /\ lim.resource = "sync"
  /\ lim.applied.limit = lim.looked.limit
  /\ lim.applied.ttl = defaultTtl
  /\ lim.looked.ttl = 2 * defaultTtl

\* the pairs that disagree
Disagreeing == {<<"POST", "sync">>}

AllOthersAgree ==
  (lim.st = "looked" /\ <<lim.method, lim.resource>> \notin Disagreeing) =>
    lim.applied = lim.looked

MethodFallbackAgreesSeen ==
  /\ lim.st = "looked"
  /\ lim.method = "DELETE" /\ lim.resource = "user"
  /\ lim.applied = [limit |-> 20, ttl |-> 2 * defaultTtl]
  /\ lim.looked = lim.applied

====
